---- MODULE Spec2Model ----
\* A model of the specification pipeline of src/src/utils/api.ts (first copy of
\* the module, lines 1-750): the retrying HTTP client, the response unwrapper
\* and the two stage functions.
\*
\* Text is modelled as a sequence of one-character strings, so that substring
\* tests and regular-expression rewrites are computed, not assumed.  The fixed
\* parts of an error message are kept as one multi-character piece each: none
\* of them contains a digit or the word "quota", so no pattern searched for in
\* this program can match inside or across them.
EXTENDS Integers, Sequences, FiniteSets, TLC

VARIABLES
    retries,      \* fetchWithRetry: parameter retries
    baseDelay,    \* fetchWithRetry: parameter baseDelay
    attempt,      \* fetchWithRetry: loop variable attempt
    lastStatus,   \* fetchWithRetry: local lastStatus (0 models undefined)
    fpc,          \* fetchWithRetry: where the call is suspended
    fres,         \* fetchWithRetry: the settled result of the call
    log,          \* calls made so far to fetch and to sleep, in order
    data,         \* the decoded body handed to extractJSONFromGemini
    ures,         \* what the call of extractJSONFromGemini ended with
    env1,         \* import.meta.env.VITE_STAGE1_API_KEY
    env2,         \* import.meta.env.VITE_STAGE2_API_KEY
    stage,        \* the stage function called: "none", "stage1", "stage2"
    spc,          \* where the stage function is suspended
    sres,         \* what the stage function ended with
    errorMsg,     \* the local errorMsg of the catch block, once entered
    pages,        \* extractISQWithGemini: one call of fetchURL for each URL
    urlContents,  \* extractISQWithGemini: what Promise.all resolved with
    fn,           \* the pure function under call, "none" when there is none
    args,         \* the arguments of its first call
    rets,         \* what its calls have ended with so far, in order
    uiStage,      \* App: state stage, "stage0" or "stages"
    inputData,    \* App: state inputData
    stage1Data,   \* App: state stage1Data
    isqs,         \* App: state isqs
    loading,      \* App: state loading
    error,        \* App: state error
    activeTab,    \* App: state activeTab
    processingStage, \* App: state processingStage
    runs          \* App: the calls of handleStage0Submit so far, in order

retryVars == <<retries, baseDelay, attempt, lastStatus, fpc, fres, log>>

unwrapVars == <<data, ures>>

stageVars == <<env1, env2, stage, spc, sres, errorMsg, pages, urlContents>>

pureVars == <<fn, args, rets>>

appVars == <<uiStage, inputData, stage1Data, isqs, loading, error, activeTab,
             processingStage, runs>>

vars == <<retries, baseDelay, attempt, lastStatus, fpc, fres, log, data, ures,
          env1, env2, stage, spc, sres, errorMsg, pages, urlContents,
          fn, args, rets,
          uiStage, inputData, stage1Data, isqs, loading, error, activeTab,
          processingStage, runs>>

-----------------------------------------------------------------------------
\* Program constants.

DefaultRetries == 2
DefaultBaseDelay == 5000
ThrottleMs == 7000

-----------------------------------------------------------------------------
\* Bounds of the model.

MaxRetries == 3
MaxChunks == 3
MaxUrls == 2

\* Values of baseDelay tried (the callers pass none: the default is 5000).
BaseDelays == {1, 3, DefaultBaseDelay}

\* HTTP statuses the generation API answers with.
Statuses == {200, 204, 400, 429, 500, 502, 503}

-----------------------------------------------------------------------------
\* Text helpers.

RECURSIVE Digits(_)
\* The decimal digits of a natural number, as template literals print it.
Digits(n) ==
    IF n < 10
    THEN << CASE n = 0 -> "0" [] n = 1 -> "1" [] n = 2 -> "2" [] n = 3 -> "3"
              [] n = 4 -> "4" [] n = 5 -> "5" [] n = 6 -> "6" [] n = 7 -> "7"
              [] n = 8 -> "8" [] OTHER -> "9" >>
    ELSE Digits(n \div 10) \o Digits(n % 10)

\* String.prototype.includes: pat occurs in text as a contiguous run.
Includes(text, pat) ==
    \E i \in 0..(Len(text) - Len(pat)) :
        \A j \in 1..Len(pat) : text[i + j] = pat[j]

S429 == <<"4", "2", "9">>
SQuota == <<"q", "u", "o", "t", "a">>

RECURSIVE Pow2(_)
\* Math.pow(2, k) for a non-negative integer k (exact in a double below 2^53).
Pow2(k) == IF k = 0 THEN 1 ELSE 2 * Pow2(k - 1)

-----------------------------------------------------------------------------
\* fetchWithRetry.

\* Response.ok of the Fetch standard: the status is in 200..299.
ResponseOk(status) == status >= 200 /\ status <= 299

IsOverloadedMutant(status) == status = 429 \/ status >= 500

\* The statuses the loop retries.
IsOverloaded(status) == status = 429 \/ status = 503 \/ status = 502

\* The loop test of line 23 and the test for the last allowed attempt of line 31.
LoopTest(a, r) == a <= r

LastAttemptMutant(a, r) == a + 1 >= r

LastAttempt(a, r) == a = r

WaitTimeMutant(base, k) == base * (k + 1)

\* The wait before the next attempt.
WaitTime(base, k) == base * Pow2(k)

\* `Gemini overloaded after ${retries + 1} attempts. Last status code: ${lastStatus}`
OverloadMessage(r, last) ==
    <<"Gemini overloaded after ">> \o Digits(r + 1)
        \o <<" attempts. Last status code: ">> \o Digits(last)

\* `Gemini API error ${lastStatus}: ${err}`
UpstreamMessage(last, body) ==
    <<"Gemini API error ">> \o Digits(last) \o <<": ">> \o body

\* The message of the TypeError fetch rejects with when the network fails.
NetworkMessage == <<"Failed to fetch">>

NoResult == [kind |-> "none", status |-> 0, tag |-> "", msg |-> <<>>]
Returned(status) == [kind |-> "response", status |-> status, tag |-> "", msg |-> <<>>]
Thrown(tag, msg) == [kind |-> "error", status |-> 0, tag |-> tag, msg |-> msg]

FetchEvent(status) == [ev |-> "fetch", n |-> status]
SleepEvent(ms) == [ev |-> "sleep", n |-> ms]

\* Bodies of error responses, as response.text() yields them.
Bodies ==
    { <<>>,
      <<"b", "a", "d">>,
      <<"n", "o", " ", "q", "u", "o", "t", "a">>,
      <<"c", "o", "d", "e", " ", "4", "2", "9">> }

\* The state of a call that has just been entered.
RetryEnter(r, b) ==
    /\ retries' = r
    /\ baseDelay' = b
    /\ attempt' = 0
    /\ lastStatus' = 0
    /\ fpc' = "fetch"
    /\ fres' = NoResult

\* await fetch(url, options) resolves with a response of the given status; the
\* body of the loop runs up to its next await, return or throw.  In the
\* overloaded branch that await is sleep(waitTime): the timer is started here.
FetchStep(status) ==
    /\ fpc = "fetch"
    /\ LoopTest(attempt, retries)
    /\ IF ResponseOk(status)
       THEN /\ fpc' = "returned"
            /\ fres' = Returned(status)
            /\ log' = Append(log, FetchEvent(status))
            /\ UNCHANGED lastStatus
       ELSE /\ lastStatus' = status
            /\ IF IsOverloaded(status)
               THEN IF LastAttempt(attempt, retries)
                    THEN /\ fpc' = "thrown"
                         /\ fres' = Thrown("overload", OverloadMessage(retries, status))
                         /\ log' = Append(log, FetchEvent(status))
                    ELSE /\ fpc' = "sleep"
                         /\ log' = log \o <<FetchEvent(status),
                                              SleepEvent(WaitTime(baseDelay, attempt))>>
                         /\ UNCHANGED fres
               ELSE /\ fpc' = "text"
                    /\ log' = Append(log, FetchEvent(status))
                    /\ UNCHANGED fres
    /\ UNCHANGED <<retries, baseDelay, attempt>>
    /\ UNCHANGED <<unwrapVars, stageVars, pureVars, appVars>>

FetchResolves ==
    \E status \in Statuses : FetchStep(status)

\* await fetch(url, options) rejects: the error leaves the call.
FetchRejects ==
    /\ fpc = "fetch"
    /\ LoopTest(attempt, retries)
    /\ log' = Append(log, FetchEvent(0))
    /\ fpc' = "thrown"
    /\ fres' = Thrown("network", NetworkMessage)
    /\ UNCHANGED <<retries, baseDelay, attempt, lastStatus>>
    /\ UNCHANGED <<unwrapVars, stageVars, pureVars, appVars>>

\* await sleep(waitTime) resolves: continue, attempt++, and the loop test.
SleepResolves ==
    /\ fpc = "sleep"
    /\ attempt' = attempt + 1
    /\ IF LoopTest(attempt + 1, retries)
       THEN /\ fpc' = "fetch"
            /\ UNCHANGED fres
       ELSE /\ fpc' = "thrown"
            /\ fres' = Thrown("unreachable", <<"Unreachable">>)
    /\ UNCHANGED <<retries, baseDelay, lastStatus, log>>
    /\ UNCHANGED <<unwrapVars, stageVars, pureVars, appVars>>

\* await response.text() resolves with the body: the upstream error is thrown.
\* (The body of a response that has arrived is taken to be readable as text.)
TextResolves ==
    /\ fpc = "text"
    /\ \E body \in Bodies :
          fres' = Thrown("upstream", UpstreamMessage(lastStatus, body))
    /\ fpc' = "thrown"
    /\ UNCHANGED <<retries, baseDelay, attempt, lastStatus, log>>
    /\ UNCHANGED <<unwrapVars, stageVars, pureVars, appVars>>

-----------------------------------------------------------------------------
\* JavaScript values, as JSON.parse and the API client produce them.  Every
\* value is a record [t, v]; t is the type.

JUndefined == [t |-> "undefined", v |-> 0]
JNull == [t |-> "null", v |-> 0]
JBool(b) == [t |-> "bool", v |-> b]
JNum(n) == [t |-> "num", v |-> n]
JStr(s) == [t |-> "str", v |-> s]
JArr(a) == [t |-> "arr", v |-> a]
\* An object is the sequence of its properties [k, val] in insertion order.
JObj(props) == [t |-> "obj", v |-> props]

\* ToBoolean.
Truthy(x) ==
    CASE x.t = "undefined" -> FALSE
      [] x.t = "null" -> FALSE
      [] x.t = "bool" -> x.v
      [] x.t = "num" -> x.v # 0
      [] x.t = "str" -> Len(x.v) > 0
      [] OTHER -> TRUE

\* Property read x.key of a value that is neither null nor undefined.
Get(x, key) ==
    IF x.t = "obj" /\ \E i \in 1..Len(x.v) : x.v[i].k = key
    THEN x.v[CHOOSE i \in 1..Len(x.v) : x.v[i].k = key].val
    ELSE JUndefined

\* Property write: a key already present keeps its place and takes the value.
PutProp(props, key, val) ==
    IF \E i \in 1..Len(props) : props[i].k = key
    THEN [i \in 1..Len(props) |->
            IF props[i].k = key THEN [k |-> key, val |-> val] ELSE props[i]]
    ELSE Append(props, [k |-> key, val |-> val])

-----------------------------------------------------------------------------
\* Text operations of the unwrapper.

\* White space of String.prototype.trim and of \s, within the characters used.
JsSpace == {" ", "\t", "\n", "\r", "\f"}

\* White space JSON.parse accepts between tokens.
JsonSpace == {" ", "\t", "\n", "\r"}

UpperLetters == <<"A", "B", "C", "D", "E", "F", "G", "H", "I", "J", "K", "L", "M", "N", "O", "P", "Q", "R", "S", "T", "U", "V", "W", "X", "Y", "Z">>
LowerLetters == <<"a", "b", "c", "d", "e", "f", "g", "h", "i", "j", "k", "l", "m", "n", "o", "p", "q", "r", "s", "t", "u", "v", "w", "x", "y", "z">>

IsUpper(c) == \E i \in 1..26 : UpperLetters[i] = c
Letters == {UpperLetters[i] : i \in 1..26} \cup {LowerLetters[i] : i \in 1..26}
IsLetter(c) == c \in Letters

\* Case folding of the i flag and of String.prototype.toLowerCase, one
\* character.
LowerChar(c) ==
    IF IsUpper(c) THEN LowerLetters[CHOOSE i \in 1..26 : UpperLetters[i] = c] ELSE c

MatchesAt(text, i, pat, ignoreCase) ==
    /\ i + Len(pat) - 1 <= Len(text)
    /\ \A j \in 1..Len(pat) :
          IF ignoreCase
          THEN LowerChar(text[i + j - 1]) = LowerChar(pat[j])
          ELSE text[i + j - 1] = pat[j]

RECURSIVE RemoveAllFrom(_, _, _, _)
\* text.replace(/pat/g, "") from position i on: matches are taken left to
\* right without overlap, and the result is not scanned again.
RemoveAllFrom(text, i, pat, ignoreCase) ==
    IF i > Len(text) THEN <<>>
    ELSE IF MatchesAt(text, i, pat, ignoreCase)
         THEN RemoveAllFrom(text, i + Len(pat), pat, ignoreCase)
         ELSE <<text[i]>> \o RemoveAllFrom(text, i + 1, pat, ignoreCase)

RemoveAll(text, pat, ignoreCase) == RemoveAllFrom(text, 1, pat, ignoreCase)

\* String.prototype.trim.
Trim(text) ==
    LET keep == {i \in 1..Len(text) : text[i] \notin JsSpace}
    IN  IF keep = {} THEN <<>>
        ELSE SubSeq(text, CHOOSE i \in keep : \A j \in keep : i <= j,
                          CHOOSE i \in keep : \A j \in keep : i >= j)

\* The grave accent U+0060 cannot be written in a string of this language: the
\* element "grave" stands for that one character.
Grave == "grave"

SFenceJson == <<Grave, Grave, Grave, "j", "s", "o", "n">>
SFence == <<Grave, Grave, Grave>>

\* rawText.replace(/```json/gi, "").replace(/```/g, "").trim()
StripFences(rawText) ==
    Trim(RemoveAll(RemoveAll(rawText, SFenceJson, TRUE), SFence, FALSE))

\* cleaned.match(/\{[\s\S]*\}/): from the first { to the last } after it; the
\* text is kept whole when there is no such pair.
BraceSpan(cleaned) ==
    LET opens == {i \in 1..Len(cleaned) : cleaned[i] = "{"}
        first == CHOOSE i \in opens : \A j \in opens : i <= j
        closes == {i \in 1..Len(cleaned) : cleaned[i] = "}" /\ i > first}
        last == CHOOSE i \in closes : \A j \in closes : i >= j
    IN  IF opens = {} THEN cleaned
        ELSE IF closes = {} THEN cleaned
        ELSE SubSeq(cleaned, first, last)

RECURSIVE SkipSpace(_, _, _)
\* The first position from i on that holds no character of the set ws.
SkipSpace(text, i, ws) ==
    IF i <= Len(text) /\ text[i] \in ws THEN SkipSpace(text, i + 1, ws) ELSE i

\* A comma that /,(\s*[\]}])/ matches: white space, then ] or }, follows it.
IsTrailingComma(text, i) ==
    /\ text[i] = ","
    /\ LET j == SkipSpace(text, i + 1, JsSpace)
       IN  j <= Len(text) /\ text[j] \in {"]", "}"}

RECURSIVE DropTrailingCommasFrom(_, _)
DropTrailingCommasFrom(text, i) ==
    IF i > Len(text) THEN <<>>
    ELSE IF IsTrailingComma(text, i)
         THEN DropTrailingCommasFrom(text, i + 1)
         ELSE <<text[i]>> \o DropTrailingCommasFrom(text, i + 1)

DropTrailingCommasMutant(text) == text

\* cleaned.replace(/,(\s*[\]}])/g, "$1")
DropTrailingCommas(text) == DropTrailingCommasFrom(text, 1)

-----------------------------------------------------------------------------
\* JSON.parse, for texts without escape sequences, fractions and exponents
\* (the characters \ . e E + do not occur in the texts tried).

DigitChars == {"0", "1", "2", "3", "4", "5", "6", "7", "8", "9"}

DigitVal(c) ==
    CASE c = "0" -> 0 [] c = "1" -> 1 [] c = "2" -> 2 [] c = "3" -> 3
      [] c = "4" -> 4 [] c = "5" -> 5 [] c = "6" -> 6 [] c = "7" -> 7
      [] c = "8" -> 8 [] OTHER -> 9

ParseFail == [ok |-> FALSE, v |-> JNull, next |-> 0]
ParseOk(val, next) == [ok |-> TRUE, v |-> val, next |-> next]

At(text, i) == IF i >= 1 /\ i <= Len(text) THEN text[i] ELSE ""

RECURSIVE ParseDigits(_, _, _)
ParseDigits(text, i, acc) ==
    IF At(text, i) \in DigitChars
    THEN ParseDigits(text, i + 1, 10 * acc + DigitVal(text[i]))
    ELSE ParseOk(JNum(acc), i)

\* number: -? (0 | [1-9][0-9]*)
ParseNumber(text, i) ==
    LET neg == At(text, i) = "-"
        s == IF neg THEN i + 1 ELSE i
        r == IF At(text, s) = "0" THEN ParseOk(JNum(0), s + 1)
             ELSE IF At(text, s) \in DigitChars THEN ParseDigits(text, s, 0)
             ELSE ParseFail
    IN  IF r.ok /\ neg THEN ParseOk(JNum(0 - r.v.v), r.next) ELSE r

\* string: " characters ", no control character and no escape inside.
ParseString(text, i) ==
    LET quotes == {j \in (i + 1)..Len(text) : text[j] = "\""}
        close == CHOOSE j \in quotes : \A m \in quotes : j <= m
    IN  IF At(text, i) # "\"" \/ quotes = {} THEN ParseFail
        ELSE IF \E j \in (i + 1)..(close - 1) : text[j] \in {"\n", "\t", "\r", "\f", "\\"}
             THEN ParseFail
             ELSE ParseOk(JStr(SubSeq(text, i + 1, close - 1)), close + 1)

ParseLiteral(text, i, lit, val) ==
    IF MatchesAt(text, i, lit, FALSE) THEN ParseOk(val, i + Len(lit)) ELSE ParseFail

STrue == <<"t", "r", "u", "e">>
SFalse == <<"f", "a", "l", "s", "e">>
SNull == <<"n", "u", "l", "l">>

RECURSIVE ParseValue(_, _), ParseMember(_, _, _), ParseElement(_, _, _)

\* value, with text[i] its first character.
ParseValue(text, i) ==
    LET c == At(text, i)
    IN  CASE c = "{" ->
               LET j == SkipSpace(text, i + 1, JsonSpace)
               IN  IF At(text, j) = "}" THEN ParseOk(JObj(<<>>), j + 1)
                   ELSE ParseMember(text, j, <<>>)
          [] c = "[" ->
               LET j == SkipSpace(text, i + 1, JsonSpace)
               IN  IF At(text, j) = "]" THEN ParseOk(JArr(<<>>), j + 1)
                   ELSE ParseElement(text, j, <<>>)
          [] c = "\"" -> ParseString(text, i)
          [] c = "-" \/ c \in DigitChars -> ParseNumber(text, i)
          [] c = "t" -> ParseLiteral(text, i, STrue, JBool(TRUE))
          [] c = "f" -> ParseLiteral(text, i, SFalse, JBool(FALSE))
          [] c = "n" -> ParseLiteral(text, i, SNull, JNull)
          [] OTHER -> ParseFail

\* member (, member)* }, with text[i] the first character of a member.
ParseMember(text, i, props) ==
    LET key == ParseString(text, i)
        colon == SkipSpace(text, key.next, JsonSpace)
        val == ParseValue(text, SkipSpace(text, colon + 1, JsonSpace))
        after == SkipSpace(text, val.next, JsonSpace)
        props2 == PutProp(props, key.v.v, val.v)
    IN  IF ~key.ok THEN ParseFail
        ELSE IF At(text, colon) # ":" THEN ParseFail
        ELSE IF ~val.ok THEN ParseFail
        ELSE IF At(text, after) = "}" THEN ParseOk(JObj(props2), after + 1)
        ELSE IF At(text, after) = ","
             THEN ParseMember(text, SkipSpace(text, after + 1, JsonSpace), props2)
             ELSE ParseFail

\* value (, value)* ], with text[i] the first character of a value.
ParseElement(text, i, items) ==
    LET val == ParseValue(text, i)
        after == SkipSpace(text, val.next, JsonSpace)
    IN  IF ~val.ok THEN ParseFail
        ELSE IF At(text, after) = "]" THEN ParseOk(JArr(Append(items, val.v)), after + 1)
        ELSE IF At(text, after) = ","
             THEN ParseElement(text, SkipSpace(text, after + 1, JsonSpace),
                               Append(items, val.v))
             ELSE ParseFail

\* JSON.parse(text): ok is FALSE where it throws a SyntaxError.
JsonParse(text) ==
    LET r == ParseValue(text, SkipSpace(text, 1, JsonSpace))
    IN  IF r.ok /\ SkipSpace(text, r.next, JsonSpace) = Len(text) + 1
        THEN [ok |-> TRUE, v |-> r.v]
        ELSE [ok |-> FALSE, v |-> JNull]

-----------------------------------------------------------------------------
\* extractJSONFromGemini.

KCandidates == <<"c", "a", "n", "d", "i", "d", "a", "t", "e", "s">>
KContent == <<"c", "o", "n", "t", "e", "n", "t">>
KParts == <<"p", "a", "r", "t", "s">>
KText == <<"t", "e", "x", "t">>
KJson == <<"j", "s", "o", "n">>

\* x?.key
OptGet(x, key) == IF x.t \in {"undefined", "null"} THEN JUndefined ELSE Get(x, key)

\* x.length of a value that is neither null nor undefined.
LengthOf(x) ==
    CASE x.t = "arr" -> JNum(Len(x.v))
      [] x.t = "str" -> JNum(Len(x.v))
      [] OTHER -> Get(x, <<"l", "e", "n", "g", "t", "h">>)

\* x[0]
First(x) ==
    CASE x.t = "arr" /\ Len(x.v) > 0 -> x.v[1]
      [] x.t = "str" /\ Len(x.v) > 0 -> JStr(<<x.v[1]>>)
      [] OTHER -> JUndefined

\* a || b
OrElse(a, b) == IF Truthy(a) THEN a ELSE b

\* What a function call ends with: a returned value or a thrown error.
Return(val) == [kind |-> "return", v |-> val]
Throw == [kind |-> "throw", v |-> JUndefined]
Pending == [kind |-> "none", v |-> JUndefined]

\* The elements for...of visits; only arrays and strings are iterable here.
IsIterable(x) == x.t \in {"arr", "str"}
Elements(x) ==
    IF x.t = "arr" THEN x.v ELSE [i \in 1..Len(x.v) |-> JStr(<<x.v[i]>>)]

RECURSIVE PartsLoop(_, _, _)
\* The loop of lines 62-70 from element i on, with rawText as built so far:
\* it returns part.json, throws on a part that is null or undefined, or runs
\* to its end (kind "text", v the rawText).
PartsLoop(elems, i, rawText) ==
    IF i > Len(elems) THEN [kind |-> "text", v |-> rawText]
    ELSE LET part == elems[i]
         IN  IF part.t \in {"undefined", "null"} THEN Throw
             ELSE LET t == Get(part, KText)
                      raw2 == IF t.t = "str" THEN rawText \o t.v \o <<"\n">> ELSE rawText
                  IN  IF Truthy(Get(part, KJson)) THEN Return(Get(part, KJson))
                      ELSE PartsLoop(elems, i + 1, raw2)

\* Lines 77-92: the decoding of the concatenated text.
DecodeText(rawText) ==
    LET parsed == JsonParse(DropTrailingCommas(BraceSpan(StripFences(rawText))))
    IN  IF parsed.ok THEN Return(parsed.v) ELSE Return(JNull)

\* Lines 50-92: the body of the outer try.
UnwrapBody(response) ==
    LET cands == OptGet(response, KCandidates)
        cand == First(cands)
        content == OptGet(cand, KContent)
        parts == OrElse(OptGet(content, KParts), OrElse(content, JArr(<<>>)))
        loop == PartsLoop(Elements(parts), 1, <<>>)
    IN  IF cands.t \in {"undefined", "null"} THEN Return(JNull)
        ELSE IF ~Truthy(LengthOf(cands)) THEN Return(JNull)
        ELSE IF ~IsIterable(parts) THEN Throw
        ELSE IF loop.kind # "text" THEN loop
        ELSE IF Trim(loop.v) = <<>> THEN Return(JNull)
        ELSE DecodeText(loop.v)

extractJSONFromGeminiMutant(response) == UnwrapBody(response)

\* Lines 48-97: the outer catch turns every throw into null.
extractJSONFromGemini(response) ==
    LET r == UnwrapBody(response)
    IN  IF r.kind = "throw" THEN Return(JNull) ELSE r

-----------------------------------------------------------------------------
\* Characters and the string operations of the text-based extraction.

\* A word character \w of a regular expression.
IsWordChar(c) == IsLetter(c) \/ c \in DigitChars \/ c = "_"

ToLower(text) == [i \in 1..Len(text) |-> LowerChar(text[i])]

RECURSIVE ReplaceFrom(_, _, _, _)
\* text.replace(/p1|p2|.../g, by) from position i on; pats lists the
\* alternatives in order.
ReplaceFrom(text, i, pats, by) ==
    IF i > Len(text) THEN <<>>
    ELSE LET hits == {n \in 1..Len(pats) : MatchesAt(text, i, pats[n], FALSE)}
             n == CHOOSE m \in hits : \A q \in hits : m <= q
         IN  IF hits = {}
             THEN <<text[i]>> \o ReplaceFrom(text, i + 1, pats, by)
             ELSE by \o ReplaceFrom(text, i + Len(pats[n]), pats, by)

RECURSIVE CollapseSpaceFrom(_, _)
\* text.replace(/\s+/g, " ") from position i on.
CollapseSpaceFrom(text, i) ==
    IF i > Len(text) THEN <<>>
    ELSE IF text[i] \in JsSpace
         THEN <<" ">> \o CollapseSpaceFrom(text, SkipSpace(text, i, JsSpace))
         ELSE <<text[i]>> \o CollapseSpaceFrom(text, i + 1)

SSheet == <<"s", "h", "e", "e", "t">>
SPlate == <<"p", "l", "a", "t", "e">>
SMaterial == <<"m", "a", "t", "e", "r", "i", "a", "l">>
SPerforation == <<"p", "e", "r", "f", "o", "r", "a", "t", "i", "o", "n">>
SHole == <<"h", "o", "l", "e">>
SThk == <<"t", "h", "k">>
SThickness == <<"t", "h", "i", "c", "k", "n", "e", "s", "s">>
SType == <<"t", "y", "p", "e">>
SShape == <<"s", "h", "a", "p", "e">>

\* Lines 3-12 without toLowerCase.
normalizeSpecNameMutant(name) ==
    Trim(CollapseSpaceFrom(
        ReplaceFrom(ReplaceFrom(ReplaceFrom(ReplaceFrom(name, 1, <<SSheet, SPlate, SMaterial>>, <<>>),
                                            1, <<SPerforation>>, SHole),
                                1, <<SThk>>, SThickness),
                    1, <<SType>>, SShape), 1))

\* normalizeSpecName of lines 3-12, on a string.
normalizeSpecName(name) ==
    LET a == ToLower(name)
        b == ReplaceFrom(a, 1, <<SSheet, SPlate, SMaterial>>, <<>>)
        c == ReplaceFrom(b, 1, <<SPerforation>>, SHole)
        d == ReplaceFrom(c, 1, <<SThk>>, SThickness)
        e == ReplaceFrom(d, 1, <<SType>>, SShape)
    IN  Trim(CollapseSpaceFrom(e, 1))

\* A call of normalizeSpecName with any value: name.toLowerCase() of line 5
\* throws a TypeError when name is not a string.
CallNormalize(name) ==
    IF name.t = "str" THEN Return(JStr(normalizeSpecName(name.v))) ELSE Throw

-----------------------------------------------------------------------------
\* parseStage2FromText.

\* The alternatives of specPatterns, in their order.
SpecKeywords ==
    << <<"s", "i", "z", "e">>,
       <<"m", "a", "t", "e", "r", "i", "a", "l">>,
       <<"g", "r", "a", "d", "e">>,
       <<"t", "h", "i", "c", "k", "n", "e", "s", "s">>,
       <<"t", "y", "p", "e">>,
       <<"s", "h", "a", "p", "e">>,
       <<"l", "e", "n", "g", "t", "h">>,
       <<"w", "i", "d", "t", "h">>,
       <<"c", "o", "l", "o", "r">>,
       <<"f", "i", "n", "i", "s", "h">>,
       <<"w", "e", "i", "g", "h", "t">>,
       <<"c", "a", "p", "a", "c", "i", "t", "y">>,
       <<"b", "r", "a", "n", "d">>,
       <<"q", "u", "a", "l", "i", "t", "y">>,
       <<"m", "o", "d", "e", "l">>,
       <<"v", "a", "r", "i", "a", "n", "t">>,
       <<"d", "e", "s", "i", "g", "n">> >>

\* The class [:\-\s].
SepChars == {":", "-"} \cup JsSpace

\* The position after the run of characters of the set cs (or not of it, when
\* inside is FALSE) that starts at i.
RECURSIVE RunEnd(_, _, _, _)
RunEnd(text, i, cs, inside) ==
    IF i <= Len(text) /\ ((text[i] \in cs) = inside)
    THEN RunEnd(text, i + 1, cs, inside)
    ELSE i

\* [:\-\s]+([^\n]+) at position p: the separators take the longest run that
\* leaves a character other than a newline for the value, and the value runs
\* to the end of its line.  vstart is 0 when there is no match.
TailAt(text, p) ==
    LET q == RunEnd(text, p, SepChars, TRUE)
        starts == {v \in (p + 1)..q : v <= Len(text) /\ text[v] # "\n"}
        vstart == CHOOSE v \in starts : \A w \in starts : v >= w
    IN  IF q = p \/ starts = {} THEN [vstart |-> 0, vend |-> 0]
        ELSE [vstart |-> vstart, vend |-> RunEnd(text, vstart, {"\n"}, FALSE) - 1]

\* specPatterns at position i: the keyword, [^:\n]* as long as the rest still
\* matches, then the tail.  ok is FALSE when there is no match at i.
SpecMatchAt(text, i) ==
    LET hits == {n \in 1..Len(SpecKeywords) : MatchesAt(text, i, SpecKeywords[n], TRUE)}
        n == CHOOSE m \in hits : \A q \in hits : m <= q
        e0 == i + Len(SpecKeywords[n])
        amax == RunEnd(text, e0, {":", "\n"}, FALSE)
        good == {p \in e0..amax : TailAt(text, p).vstart # 0}
        p == CHOOSE x \in good : \A y \in good : x >= y
        tail == TailAt(text, p)
    IN  IF hits = {} THEN [ok |-> FALSE, name |-> <<>>, val |-> <<>>, next |-> i + 1]
        ELSE IF good = {} THEN [ok |-> FALSE, name |-> <<>>, val |-> <<>>, next |-> i + 1]
        ELSE [ok |-> TRUE, name |-> SubSeq(text, i, e0 - 1),
              val |-> SubSeq(text, tail.vstart, tail.vend), next |-> tail.vend + 1]

RECURSIVE SpecMatchesFrom(_, _)
\* The matches from the position after the attempt m on, with m first when it
\* is a match.
MatchesAfter(text, m) ==
    IF m.ok THEN <<m>> \o SpecMatchesFrom(text, m.next)
    ELSE SpecMatchesFrom(text, m.next)

\* Array.from(text.matchAll(specPatterns)), from position i on.
SpecMatchesFrom(text, i) ==
    IF i > Len(text) THEN <<>> ELSE MatchesAfter(text, SpecMatchAt(text, i))

SAnd == <<"a", "n", "d">>

\* The length of the separator of split that starts at i (0: none).  The
\* separators are "\n" (lines), /,|;|\// (list) and /,|;|\/|\band\b/
\* (listAnd), where and stands between two word boundaries.
DelimiterAt(text, i, sep) ==
    IF sep = "lines" THEN (IF text[i] = "\n" THEN 1 ELSE 0)
    ELSE IF text[i] \in {",", ";", "/"} THEN 1
    ELSE IF /\ sep = "listAnd"
            /\ MatchesAt(text, i, SAnd, FALSE)
            /\ (i = 1 \/ ~IsWordChar(text[i - 1]))
            /\ (i + 3 > Len(text) \/ ~IsWordChar(text[i + 3]))
         THEN 3
         ELSE 0

RECURSIVE SplitFrom(_, _, _, _)
\* text.split(sep) from position i on, with piece the current piece.
SplitFrom(text, i, sep, piece) ==
    IF i > Len(text) THEN <<piece>>
    ELSE LET d == DelimiterAt(text, i, sep)
         IN  IF d > 0 THEN <<piece>> \o SplitFrom(text, i + d, sep, <<>>)
             ELSE SplitFrom(text, i + 1, sep, Append(piece, text[i]))

SelectSeqLen(s, lo, hi) == SelectSeq(s, LAMBDA v : Len(v) > lo /\ Len(v) < hi)

Take(s, n) == IF Len(s) <= n THEN s ELSE SubSeq(s, 1, n)

\* map((v) => v.trim())
MapTrim(pieces) == [i \in 1..Len(pieces) |-> Trim(pieces[i])]

\* split, map(trim), filter(0 < length < 50), slice(0, n)
SplitValues(valuesStr, sep, n) ==
    Take(SelectSeqLen(MapTrim(SplitFrom(valuesStr, 1, sep, <<>>)), 0, 50), n)

\* [a-z]{3,} at i under the i flag, between two word boundaries: the end of
\* the run of letters, or 0.
GoodWordEnd(text, i) ==
    LET e == RunEnd(text, i, Letters, TRUE)
    IN  IF /\ i <= Len(text) /\ IsLetter(text[i])
           /\ e - i >= 3
           /\ (e > Len(text) \/ ~IsWordChar(text[e]))
        THEN e ELSE 0

RECURSIVE ChainEnd(_, _)
\* (?:\s+[a-z]{3,})* after a word that ends before e: the end of the chain.
ChainEnd(text, e) ==
    LET s == RunEnd(text, e, JsSpace, TRUE)
        w == GoodWordEnd(text, s)
    IN  IF s > e /\ w # 0 THEN ChainEnd(text, w) ELSE e

RECURSIVE WordChainsFrom(_, _)
\* The match that starts at i and ends before e, and the matches after it.
ChainsAfter(text, i, e) == <<SubSeq(text, i, e - 1)>> \o WordChainsFrom(text, e)

\* The matches from i on, where w is the end of the word at i, or 0.
ChainsAt(text, i, w) ==
    IF w # 0 THEN ChainsAfter(text, i, ChainEnd(text, w))
    ELSE WordChainsFrom(text, i + 1)

\* text.match(/\b[a-z]{3,}(?:\s+[a-z]{3,})*\b/gi) from position i on.
WordChainsFrom(text, i) ==
    IF i > Len(text) THEN <<>>
    ELSE ChainsAt(text, i,
                  IF i = 1 \/ ~IsWordChar(text[i - 1]) THEN GoodWordEnd(text, i) ELSE 0)

KName == <<"n", "a", "m", "e">>
KOptions == <<"o", "p", "t", "i", "o", "n", "s">>
KConfig == <<"c", "o", "n", "f", "i", "g">>
KKeys == <<"k", "e", "y", "s">>
KBuyers == <<"b", "u", "y", "e", "r", "s">>

StrArray(texts) == JArr([i \in 1..Len(texts) |-> JStr(texts[i])])

\* The object {name, options}.
MakeISQ(name, options) ==
    JObj(<<[k |-> KName, val |-> JStr(name)], [k |-> KOptions, val |-> StrArray(options)]>>)

\* The object {config, keys, buyers}.
MakeStage2(config, keys, buyers) ==
    JObj(<<[k |-> KConfig, val |-> config], [k |-> KKeys, val |-> keys],
           [k |-> KBuyers, val |-> buyers]>>)

\* The callback of lines 261-284 on a match with the given name, values and
\* normalized name; st holds config, keys, seenNames and configSet.
VisitMatch(st, name, values, norm) ==
    IF Len(values) = 0 THEN st
    ELSE IF norm \in st.seenNames THEN st
    ELSE IF ~st.configSet /\ Len(values) >= 2
         THEN [st EXCEPT !.seenNames = @ \cup {norm}, !.name = name,
                         !.options = values, !.configSet = TRUE]
    ELSE IF Len(st.keys) < 3
         THEN [st EXCEPT !.seenNames = @ \cup {norm},
                         !.keys = Append(@, MakeISQ(name, values))]
         ELSE [st EXCEPT !.seenNames = @ \cup {norm}]

VisitNamed(st, name, values) == VisitMatch(st, name, values, normalizeSpecName(name))

RECURSIVE ForEachMatch(_, _, _)
\* matches.forEach(...) from match i on.
ForEachMatch(matches, i, st) ==
    IF i > Len(matches) THEN st
    ELSE ForEachMatch(matches, i + 1,
             VisitNamed(st, Trim(matches[i].name),
                        SplitValues(Trim(matches[i].val), "listAnd", 10)))

\* Lines 286-294: without a config so far, the first match gives it.
FirstMatchConfig(st, matches) ==
    IF ~st.configSet /\ Len(matches) > 0
    THEN [st EXCEPT !.name = Trim(matches[1].name),
                    !.options = SplitValues(matches[1].val, "list", 5)]
    ELSE st

\* Lines 296-302: without a name or without options, the word chains give
\* both.
WordsConfig(st, text) ==
    IF Len(st.name) = 0 \/ Len(st.options) = 0
    THEN (LET words == WordChainsFrom(text, 1)
          IN  IF Len(words) > 0
              THEN [st EXCEPT !.name = words[1], !.options = Take(words, 5)]
              ELSE st)
    ELSE st

\* Lines 304-306.
ParsedResult(st) ==
    IF Len(st.name) = 0 THEN JNull
    ELSE MakeStage2(MakeISQ(st.name, st.options), JArr(st.keys), JArr(<<>>))

ParseState0 ==
    [name |-> <<>>, options |-> <<>>, keys |-> <<>>, seenNames |-> {}, configSet |-> FALSE]

\* Lines 256-306, with the matches of specPatterns in text.
ParseWithMatches(text, matches) ==
    ParsedResult(
        WordsConfig(
            FirstMatchConfig(ForEachMatch(Take(matches, 10), 1, ParseState0), matches),
            text))

\* parseStage2FromText of lines 245-307; JNull is its null.
parseStage2FromText(text) ==
    IF Len(SelectSeq(SplitFrom(text, 1, "lines", <<>>), LAMBDA l : Len(Trim(l)) > 0)) = 0
    THEN JNull
    ELSE ParseWithMatches(text, SpecMatchesFrom(text, 1))

RECURSIVE RawTextLoop(_, _, _)
\* The loop of lines 233-237.
RawTextLoop(elems, i, text) ==
    IF i > Len(elems) THEN [kind |-> "text", v |-> text]
    ELSE IF elems[i].t \in {"undefined", "null"} THEN Throw
    ELSE LET t == Get(elems[i], KText)
         IN  RawTextLoop(elems, i + 1,
                         IF t.t = "str" THEN text \o t.v \o <<"\n">> ELSE text)

\* extractRawText of lines 226-243; every throw yields "".
extractRawText(response) ==
    LET cands == OptGet(response, KCandidates)
        parts == OrElse(OptGet(OptGet(First(cands), KContent), KParts), JArr(<<>>))
        loop == RawTextLoop(Elements(parts), 1, <<>>)
    IN  IF cands.t \in {"undefined", "null"} THEN <<>>
        ELSE IF ~Truthy(LengthOf(cands)) THEN <<>>
        ELSE IF ~IsIterable(parts) THEN <<>>
        ELSE IF loop.kind # "text" THEN <<>>
        ELSE Trim(loop.v)

-----------------------------------------------------------------------------
\* Responses of the generation API, as response.json() yields them.

TextPart(text) == JObj(<<[k |-> KText, val |-> JStr(text)]>>)
JsonPart(val) == JObj(<<[k |-> KJson, val |-> val]>>)
WithParts(parts) ==
    JObj(<<[k |-> KCandidates, val |->
              JArr(<<JObj(<<[k |-> KContent, val |->
                               JObj(<<[k |-> KParts, val |-> JArr(parts)]>>)]>>)>>)]>>)
WithContent(content) ==
    JObj(<<[k |-> KCandidates, val |->
              JArr(<<JObj(<<[k |-> KContent, val |-> content]>>)>>)]>>)
WithCandidates(cands) == JObj(<<[k |-> KCandidates, val |-> cands]>>)
TextResponse(text) == WithParts(<<TextPart(text)>>)

\* The object {a:1}.
ObjA1 == JObj(<<[k |-> <<"a">>, val |-> JNum(1)]>>)

\* "Sure! Here's the JSON: ```json\n{\"a\":1,}\n```"
ExampleText ==
    <<"S", "u", "r", "e", "!", " ", "H", "e", "r", "e", "'", "s", " ", "t", "h", "e", " ",
    "J", "S", "O", "N", ":", " ", Grave, Grave, Grave, "j", "s", "o", "n", "\n", "{", "\"", "a", "\"", ":", "1", ",", "}", "\n", Grave, Grave, Grave>>

\* The pieces the answers of the model are put together from.
Chunks ==
    { SFenceJson, <<Grave, Grave, Grave, "J", "S", "O", "N">>, SFence,
      <<"{">>, <<"}">>, <<"[">>, <<"]">>, <<",">>, <<"\n">>,
      <<"\"", "a", "\"", ":", "1">>, <<"1">>, <<"H", "i">> }

RECURSIVE TextsOf(_)
\* Every concatenation of at most n chunks.
TextsOf(n) ==
    IF n = 0 THEN {<<>>}
    ELSE LET shorter == TextsOf(n - 1)
         IN  shorter \cup {t \o c : t \in shorter, c \in Chunks}

\* Responses whose shape, not whose text, is the case.
ShapedResponses ==
    { JUndefined, JNull, JObj(<<>>), JNum(1), JStr(<<"x">>),
      WithCandidates(JNull), WithCandidates(JArr(<<>>)), WithCandidates(JArr(<<JNull>>)),
      WithCandidates(JArr(<<JObj(<<>>)>>)), WithCandidates(JStr(<<"x">>)),
      WithContent(JNull), WithContent(JObj(<<>>)), WithContent(JNum(1)),
      WithContent(JObj(<<[k |-> <<"r", "o", "l", "e">>, val |-> JStr(<<"m">>)]>>)),
      WithContent(JArr(<<TextPart(<<"{", "}">>)>>)),
      WithContent(JStr(<<"{", "}">>)),
      WithParts(<<>>), WithParts(<<JNull>>), WithParts(<<JUndefined>>),
      WithParts(<<JObj(<<>>)>>), WithParts(<<JNum(1)>>),
      WithParts(<<JObj(<<[k |-> KText, val |-> JNum(1)]>>)>>),
      WithParts(<<TextPart(<<"1">>), JNull>>),
      WithParts(<<JsonPart(ObjA1)>>), WithParts(<<JsonPart(JNum(0))>>),
      WithParts(<<TextPart(<<"H", "i">>), JsonPart(ObjA1)>>),
      WithParts(<<JsonPart(JNull), TextPart(ExampleText)>>),
      WithParts(<<TextPart(<<"{">>), TextPart(<<"}">>)>>),
      WithParts(<<TextPart(<<" ">>), TextPart(<<"\n">>)>>) }

UnwrapInputs ==
    ShapedResponses \cup {TextResponse(t) : t \in TextsOf(MaxChunks) \cup {ExampleText}}

\* One call of the unwrapper.
UnwrapCall ==
    /\ ures.kind = "none"
    /\ ures' = extractJSONFromGemini(data)
    /\ UNCHANGED <<data, retryVars, stageVars, pureVars, appVars>>

-----------------------------------------------------------------------------
\* The stage functions generateStage1WithGemini and extractISQWithGemini.

\* (import.meta.env.X || "").trim() without its trim.
ApiKeyMutant(env) == OrElse(env, JStr(<<>>)).v

\* (import.meta.env.X || "").trim()
ApiKey(env) == Trim(OrElse(env, JStr(<<>>)).v)

STAGE1_API_KEY == ApiKey(env1)
STAGE2_API_KEY == ApiKey(env2)

\* `Stage n API key is not configured. Please add VITE_STAGEn_API_KEY to your .env file.`
ConfigMessage(n) ==
    <<"Stage ">> \o Digits(n) \o <<" API key is not configured. Please add VITE_STAGE">>
        \o Digits(n) \o <<"_API_KEY to your .env file.">>

\* `Stage n API key quota exhausted. Please check your API limits.`
QuotaMessage(n) ==
    <<"Stage ">> \o Digits(n) \o <<" API key quota exhausted. Please check your API limits.">>

\* What a stage function ends with; site names the return or throw statement.
StagePending == [kind |-> "none", site |-> "", v |-> JUndefined]
StageReturn(site, val) == [kind |-> "return", site |-> site, v |-> val]
StageThrow(site, msg) == [kind |-> "throw", site |-> site, v |-> JStr(msg)]

KSellerSpecs == <<"s", "e", "l", "l", "e", "r", "_", "s", "p", "e", "c", "s">>
SUnknown == <<"U", "n", "k", "n", "o", "w", "n">>

\* { seller_specs: [] }
generateFallbackStage1 == JObj(<<[k |-> KSellerSpecs, val |-> JArr(<<>>)]>>)

\* { config: { name: "Unknown", options: [] }, keys: [], buyers: [] }
generateFallbackStage2 == MakeStage2(MakeISQ(SUnknown, <<>>), JArr(<<>>), JArr(<<>>))

\* The catch block of stage n with the test for "429" left out.
StageCatchMutant(n, msg) ==
    IF Includes(msg, SQuota)
    THEN StageThrow("quota", QuotaMessage(n))
    ELSE StageReturn("caught",
                     IF n = 1 THEN generateFallbackStage1 ELSE generateFallbackStage2)

\* The catch block of stage n, entered with the message of the error.
StageCatch(n, msg) ==
    IF Includes(msg, S429) \/ Includes(msg, SQuota)
    THEN StageThrow("quota", QuotaMessage(n))
    ELSE StageReturn("caught",
                     IF n = 1 THEN generateFallbackStage1 ELSE generateFallbackStage2)

\* return extractJSONFromGemini(data) || generateFallbackStage1()
Stage1Answer(d) ==
    StageReturn("answer", OrElse(extractJSONFromGemini(d).v, generateFallbackStage1))

\* Lines 205-209: the result of the text-based extraction, when it has a
\* config with a name.
Stage2TextResult(fallbackParsed) ==
    IF /\ Truthy(fallbackParsed)
       /\ Truthy(Get(fallbackParsed, KConfig))
       /\ Truthy(Get(Get(fallbackParsed, KConfig), KName))
    THEN StageReturn("text", fallbackParsed)
    ELSE StageReturn("default", generateFallbackStage2)

\* Lines 203-212: the raw text of the answer, when there is any.
Stage2FromText(textContent) ==
    IF Len(textContent) > 0
    THEN Stage2TextResult(parseStage2FromText(textContent))
    ELSE StageReturn("default", generateFallbackStage2)

\* Lines 193-212: the decoded answer when its config has a name, else the
\* text-based extraction, else the default.
Stage2Decide(d, parsed) ==
    IF Truthy(parsed) /\ Truthy(Get(parsed, KConfig))
                      /\ Truthy(Get(Get(parsed, KConfig), KName))
    THEN StageReturn("json",
             MakeStage2(Get(parsed, KConfig), OrElse(Get(parsed, KKeys), JArr(<<>>)),
                        OrElse(Get(parsed, KBuyers), JArr(<<>>))))
    ELSE Stage2FromText(extractRawText(d))

Stage2Answer(d) == Stage2Decide(d, extractJSONFromGemini(d).v)

PromptEvent(n) == [ev |-> "prompt", n |-> n]
ThrottleEvent(ms) == [ev |-> "throttle", n |-> ms]
PageEvent(i) == [ev |-> "page", n |-> i]

\* Values of an environment variable: unset, empty, blank, and a key with
\* white space around it.
EnvValues ==
    {JUndefined, JStr(<<>>), JStr(<<" ">>), JStr(<<" ", "k", "1", " ">>)}

\* Positions a SyntaxError of response.json() may report.
JsonErrorPositions == {0, 429}

\* Messages of the SyntaxError response.json() rejects with.
JsonErrors ==
    {<<"Unexpected end of JSON input">>}
      \cup {<<"Unexpected token < in JSON at position ">> \o Digits(p) :
              p \in JsonErrorPositions}

\* { config: { name: "Grade", options: ["304", "316"] },
\*   keys: [{ name: "Finish", options: ["2B"] }], buyers: [] }
GradeAnswer ==
    MakeStage2(MakeISQ(<<"G", "r", "a", "d", "e">>, <<<<"3", "0", "4">>, <<"3", "1", "6">>>>),
               JArr(<<MakeISQ(<<"F", "i", "n", "i", "s", "h">>, <<<<"2", "B">>>>)>>), JArr(<<>>))

\* Bodies of successful responses, as response.json() decodes them.
StageAnswers ==
    { JNull,
      JObj(<<>>),
      WithParts(<<JsonPart(GradeAnswer)>>),
      TextResponse(<<"{", "\"", "s", "e", "l", "l", "e", "r", "_", "s", "p", "e", "c", "s", "\"", ":", "[", "]", "}">>),
      TextResponse(<<"{", "\"", "c", "o", "n", "f", "i", "g", "\"", ":", "{", "\"", "n", "a", "m", "e", "\"", ":", "\"", "x", "\"", "}", "}">>),
      TextResponse(<<"{", "\"", "c", "o", "n", "f", "i", "g", "\"", ":", "{", "\"", "n", "a", "m", "e", "\"", ":", "\"", "\"", "}", "}">>),
      TextResponse(<<"s", "i", "z", "e", ":", " ", "1", ",", " ", "2">>),
      TextResponse(<<"1", "2">>),
      TextResponse(<<"0">>) }

\* Visible text of a fetched page: doc.body.textContent.
PageTexts == {<<>>, <<"p">>}

NewPage == [pc |-> "idle", content |-> <<>>]

\* A call of fetchURL has returned: from its try block ("done", line 412) or
\* from its catch block ("caught", line 414).
Settled(page) == page.pc \in {"done", "caught"}
AllSettled(ps) == \A i \in 1..Len(ps) : Settled(ps[i])

\* A Promise.all that resolves with nothing once one of the calls went through
\* its catch block.
PromiseAllMutant(ps) ==
    IF \E i \in 1..Len(ps) : ps[i].pc = "caught" THEN <<>>
    ELSE [i \in 1..Len(ps) |-> ps[i].content]

\* A Promise.all that resolves with the values in the opposite order.
PromiseAllReversed(ps) == [i \in 1..Len(ps) |-> ps[Len(ps) + 1 - i].content]

\* What Promise.all(urls.map(fetchURL)) resolves with: the value of each call,
\* in the order of the URLs.
PromiseAll(ps) == [i \in 1..Len(ps) |-> ps[i].content]

\* contents[i].substring(0, 1000) of line 597.
PromptLimit == 1000

\* Lines 596-598: the parts of urlsText, one for each URL, with the number
\* written after "URL " and the text written after "Content: ".
UrlsText(contents) ==
    [i \in 1..Len(contents) |->
        [url |-> i,
         content |-> SubSeq(contents[i], 1,
                            IF Len(contents[i]) > PromptLimit THEN PromptLimit
                            ELSE Len(contents[i]))]]

\* generateStage1WithGemini is called: lines 106-112, up to the first await.
Stage1Call ==
    /\ stage = "none"
    /\ stage' = "stage1"
    /\ IF Len(STAGE1_API_KEY) = 0
       THEN /\ spc' = "done"
            /\ sres' = StageThrow("config", ConfigMessage(1))
            /\ UNCHANGED retryVars
       ELSE /\ spc' = "call"
            /\ RetryEnter(DefaultRetries, DefaultBaseDelay)
            /\ log' = Append(log, PromptEvent(1))
            /\ UNCHANGED sres
    /\ UNCHANGED <<pureVars, appVars, env1, env2, errorMsg, pages, urlContents, unwrapVars>>

\* await fetchWithRetry(...) has returned and await response.json() resolves.
Stage1JsonResolves ==
    /\ stage = "stage1" /\ spc = "call" /\ fpc = "returned"
    /\ \E d \in StageAnswers :
          /\ data' = d
          /\ sres' = Stage1Answer(d)
    /\ spc' = "done"
    /\ UNCHANGED <<pureVars, appVars, env1, env2, stage, errorMsg, pages, urlContents, ures, retryVars>>

\* await response.json() rejects: the catch block runs.
Stage1JsonRejects ==
    /\ stage = "stage1" /\ spc = "call" /\ fpc = "returned"
    /\ \E m \in JsonErrors :
          /\ errorMsg' = JStr(m)
          /\ sres' = StageCatch(1, m)
    /\ spc' = "done"
    /\ UNCHANGED <<pureVars, appVars, env1, env2, stage, pages, urlContents, unwrapVars, retryVars>>

\* await fetchWithRetry(...) has thrown: the catch block runs.
Stage1Catches ==
    /\ stage = "stage1" /\ spc = "call" /\ fpc = "thrown"
    /\ errorMsg' = JStr(fres.msg)
    /\ sres' = StageCatch(1, fres.msg)
    /\ spc' = "done"
    /\ UNCHANGED <<pureVars, appVars, env1, env2, stage, pages, urlContents, unwrapVars, retryVars>>

\* extractISQWithGemini is called: lines 155-160, up to await sleep(7000).
Stage2Call ==
    /\ stage = "none"
    /\ stage' = "stage2"
    /\ IF Len(STAGE2_API_KEY) = 0
       THEN /\ spc' = "done"
            /\ sres' = StageThrow("config", ConfigMessage(2))
            /\ UNCHANGED log
       ELSE /\ spc' = "throttle"
            /\ log' = Append(log, ThrottleEvent(ThrottleMs))
            /\ UNCHANGED sres
    /\ UNCHANGED <<retries, baseDelay, attempt, lastStatus, fpc, fres>>
    /\ UNCHANGED <<pureVars, appVars, env1, env2, errorMsg, pages, urlContents, unwrapVars>>

\* await sleep(7000) resolves: urls.map(fetchURL) starts one fetch for each
\* URL, in order.
Stage2ThrottleResolves ==
    /\ stage = "stage2" /\ spc = "throttle"
    /\ pages' = [i \in 1..Len(pages) |-> [pc |-> "fetch", content |-> <<>>]]
    /\ log' = log \o [i \in 1..Len(pages) |-> PageEvent(i)]
    /\ spc' = "pages"
    /\ UNCHANGED <<retries, baseDelay, attempt, lastStatus, fpc, fres>>
    /\ UNCHANGED <<pureVars, appVars, env1, env2, stage, sres, errorMsg, urlContents, unwrapVars>>

\* fetchURL, line 408: await fetch(url) resolves.
PageFetchResolves(i) ==
    /\ pages[i].pc = "fetch"
    /\ pages' = [pages EXCEPT ![i].pc = "text"]
    /\ UNCHANGED <<pureVars, appVars, env1, env2, stage, spc, sres, errorMsg, urlContents>>
    /\ UNCHANGED <<unwrapVars, retryVars>>

\* fetchURL, line 408: await fetch(url) rejects and the catch returns "".
PageFetchRejects(i) ==
    /\ pages[i].pc = "fetch"
    /\ pages' = [pages EXCEPT ![i] = [pc |-> "caught", content |-> <<>>]]
    /\ UNCHANGED <<pureVars, appVars, env1, env2, stage, spc, sres, errorMsg, urlContents>>
    /\ UNCHANGED <<unwrapVars, retryVars>>

\* fetchURL, lines 409-412: await response.text() resolves with a document whose
\* visible text is t; the call returns doc.body.textContent || "".
PageTextResolves(i, t) ==
    /\ pages[i].pc = "text"
    /\ pages' = [pages EXCEPT ![i] = [pc |-> "done", content |-> OrElse(JStr(t), JStr(<<>>)).v]]
    /\ UNCHANGED <<pureVars, appVars, env1, env2, stage, spc, sres, errorMsg, urlContents>>
    /\ UNCHANGED <<unwrapVars, retryVars>>

\* fetchURL, line 409: await response.text() rejects and the catch returns "".
PageTextRejects(i) ==
    /\ pages[i].pc = "text"
    /\ pages' = [pages EXCEPT ![i] = [pc |-> "caught", content |-> <<>>]]
    /\ UNCHANGED <<pureVars, appVars, env1, env2, stage, spc, sres, errorMsg, urlContents>>
    /\ UNCHANGED <<unwrapVars, retryVars>>

\* Promise.all resolves once every fetchURL has: lines 162-166, the prompt is
\* built and fetchWithRetry is called.
Stage2PagesResolve ==
    /\ stage = "stage2" /\ spc = "pages"
    /\ AllSettled(pages)
    /\ urlContents' = PromiseAll(pages)
    /\ RetryEnter(DefaultRetries, DefaultBaseDelay)
    /\ log' = Append(log, PromptEvent(2))
    /\ spc' = "call"
    /\ UNCHANGED <<pureVars, appVars, env1, env2, stage, sres, errorMsg, pages, unwrapVars>>

\* await fetchWithRetry(...) has returned and await response.json() resolves.
Stage2JsonResolves ==
    /\ stage = "stage2" /\ spc = "call" /\ fpc = "returned"
    /\ \E d \in StageAnswers :
          /\ data' = d
          /\ sres' = Stage2Answer(d)
    /\ spc' = "done"
    /\ UNCHANGED <<pureVars, appVars, env1, env2, stage, errorMsg, pages, urlContents, ures, retryVars>>

\* await response.json() rejects: the catch block runs.
Stage2JsonRejects ==
    /\ stage = "stage2" /\ spc = "call" /\ fpc = "returned"
    /\ \E m \in JsonErrors :
          /\ errorMsg' = JStr(m)
          /\ sres' = StageCatch(2, m)
    /\ spc' = "done"
    /\ UNCHANGED <<pureVars, appVars, env1, env2, stage, pages, urlContents, unwrapVars, retryVars>>

\* await fetchWithRetry(...) has thrown: the catch block runs.
Stage2Catches ==
    /\ stage = "stage2" /\ spc = "call" /\ fpc = "thrown"
    /\ errorMsg' = JStr(fres.msg)
    /\ sres' = StageCatch(2, fres.msg)
    /\ spc' = "done"
    /\ UNCHANGED <<pureVars, appVars, env1, env2, stage, pages, urlContents, unwrapVars, retryVars>>

\* No pure function is under call.
PureIdle ==
    /\ fn = "none"
    /\ args = <<>>
    /\ rets = <<>>

\* No stage function has been called.
StageIdle ==
    /\ env1 = JUndefined
    /\ env2 = JUndefined
    /\ stage = "none"
    /\ spc = "idle"
    /\ sres = StagePending
    /\ errorMsg = JUndefined
    /\ pages = <<>>
    /\ urlContents = <<>>

-----------------------------------------------------------------------------
\* selectStage3BuyerISQs: the Stage 3 reconciler.

TopOptions == 8

KSpecName == <<"s", "p", "e", "c", "_", "n", "a", "m", "e">>
KMcats == <<"m", "c", "a", "t", "s">>
KFinalizedSpecs == <<"f", "i", "n", "a", "l", "i", "z", "e", "d", "_", "s", "p", "e", "c", "s">>
KPrimarySpecs == <<"f", "i", "n", "a", "l", "i", "z", "e", "d", "_", "p", "r", "i", "m", "a", "r", "y", "_", "s", "p", "e", "c", "s">>
KSecondarySpecs == <<"f", "i", "n", "a", "l", "i", "z", "e", "d", "_", "s", "e", "c", "o", "n", "d", "a", "r", "y", "_", "s", "p", "e", "c", "s">>
KTertiarySpecs == <<"f", "i", "n", "a", "l", "i", "z", "e", "d", "_", "t", "e", "r", "t", "i", "a", "r", "y", "_", "s", "p", "e", "c", "s">>
KSpecs == <<"s", "p", "e", "c", "s">>
KTier == <<"t", "i", "e", "r">>
KNormName == <<"n", "o", "r", "m", "N", "a", "m", "e">>
SPrimary == <<"P", "r", "i", "m", "a", "r", "y">>
SSecondary == <<"S", "e", "c", "o", "n", "d", "a", "r", "y">>
STertiary == <<"T", "e", "r", "t", "i", "a", "r", "y">>

RECURSIVE ConcatAll(_)
\* The concatenation of a sequence of sequences: what nested forEach loops
\* push, in order.
ConcatAll(ss) == IF ss = <<>> THEN <<>> ELSE Head(ss) \o ConcatAll(Tail(ss))

\* { ...s, tier, normName: normalizeSpecName(s.spec_name) }
WithTier(s, tier) ==
    JObj(PutProp(PutProp(s.v, KTier, JStr(tier)),
                 KNormName, JStr(normalizeSpecName(Get(s, KSpecName).v))))

\* { ...s, normName: normalizeSpecName(s.name) }
WithNormName(s) ==
    JObj(PutProp(s.v, KNormName, JStr(normalizeSpecName(Get(s, KName).v))))

\* mcat.finalized_specs[key].specs
SpecsOf(mcat, key) == Get(Get(Get(mcat, KFinalizedSpecs), key), KSpecs).v

\* Lines 639-644: the specs one tier of an MCAT pushes.
TierSpecs(specs, tier) == [i \in 1..Len(specs) |-> WithTier(specs[i], tier)]

\* Lines 636-645: the Primary specs of an MCAT, then its Secondary specs.
McatSpecs(mcat) ==
    TierSpecs(SpecsOf(mcat, KPrimarySpecs), SPrimary)
        \o TierSpecs(SpecsOf(mcat, KSecondarySpecs), SSecondary)

SellerSpecs(mcats) == ConcatAll([j \in 1..Len(mcats) |-> McatSpecs(mcats[j])])

AllSellerSpecs(sellers) ==
    ConcatAll([i \in 1..Len(sellers) |-> SellerSpecs(Get(sellers[i], KMcats).v)])

\* Lines 634-646: stage1All.
Stage1All(stage1) == AllSellerSpecs(Get(stage1, KSellerSpecs).v)

MapNormName(specs) == [i \in 1..Len(specs) |-> WithNormName(specs[i])]

\* Lines 649-653: stage2All, from config, keys and buyers.
Stage2All(stage2) ==
    MapNormName(<<Get(stage2, KConfig)>> \o Get(stage2, KKeys).v
                    \o OrElse(Get(stage2, KBuyers), JArr(<<>>)).v)

\* stage2All.some(s2 => s2.normName === s1.normName)
InStage2(s1, s2all) ==
    \E i \in 1..Len(s2all) : Get(s2all[i], KNormName) = Get(s1, KNormName)

\* Lines 656-658: commonSpecs.
CommonSpecs(s1all, s2all) == SelectSeq(s1all, LAMBDA s1 : InStage2(s1, s2all))

\* Array.prototype.find on the property key: the first element whose property
\* has the value (or, when same is FALSE, has another value), else undefined.
FindBy(seq, key, val, same) ==
    LET hits == {i \in 1..Len(seq) : (Get(seq[i], key) = val) = same}
    IN  IF hits = {} THEN JUndefined
        ELSE seq[CHOOSE i \in hits : \A j \in hits : i <= j]

\* Lines 662-665: primarySpec.
PrimarySpec(common) ==
    OrElse(FindBy(common, KTier, JStr(SPrimary), TRUE),
           FindBy(common, KTier, JStr(SSecondary), TRUE))

\* Lines 667-669: secondarySpec.
SecondarySpec(common, primarySpec) ==
    FindBy(common, KNormName, OptGet(primarySpec, KNormName), FALSE)

\* Array.prototype.slice(0, end); a negative end counts from the end.
Slice0(seq, end) ==
    LET e == IF end < 0 THEN (IF Len(seq) + end < 0 THEN 0 ELSE Len(seq) + end)
             ELSE (IF end > Len(seq) THEN Len(seq) ELSE end)
    IN  SubSeq(seq, 1, e)

RECURSIVE DedupeFrom(_, _, _)
\* [...new Set(seq)], from element i on, with acc the values kept so far.
DedupeFrom(seq, i, acc) ==
    IF i > Len(seq) THEN acc
    ELSE IF \E j \in 1..Len(acc) : acc[j] = seq[i]
         THEN DedupeFrom(seq, i + 1, acc)
         ELSE DedupeFrom(seq, i + 1, Append(acc, seq[i]))

\* s?.options when it is truthy, else nothing.
OptionsIfAny(s) ==
    IF Truthy(OptGet(s, KOptions)) THEN OptGet(s, KOptions).v ELSE <<>>

\* Lines 679-681: the Stage 1 options that are not among options, cut to what
\* is needed.
Additional(options, s1options) ==
    Slice0(SelectSeq(s1options, LAMBDA o : ~\E j \in 1..Len(options) : options[j] = o),
           TopOptions - Len(options))

\* Lines 676-682 without line 684: no Set and no slice.
MergeOptionsMutant(options, s1options) == options \o Additional(options, s1options)

\* Lines 676-684, with the options of s2 and s1.
MergeOptions(options, s1options) ==
    Slice0(DedupeFrom(options \o Additional(options, s1options), 1, <<>>), TopOptions)

\* getTopOptions of lines 672-685.
getTopOptions(normName, s1all, s2all) ==
    MergeOptions(OptionsIfAny(FindBy(s2all, KNormName, normName, TRUE)),
                 OptionsIfAny(FindBy(s1all, KNormName, normName, TRUE)))

\* { name: spec.name, options: getTopOptions(spec.normName) }, when spec is
\* truthy.
PushBuyer(spec, s1all, s2all) ==
    IF Truthy(spec)
    THEN <<JObj(<<[k |-> KName, val |-> Get(spec, KName)],
                  [k |-> KOptions,
                   val |-> JArr(getTopOptions(Get(spec, KNormName), s1all, s2all))]>>)>>
    ELSE <<>>

\* Lines 687-693.
BuyerISQs(primarySpec, common, s1all, s2all) ==
    JArr(PushBuyer(primarySpec, s1all, s2all)
            \o PushBuyer(SecondarySpec(common, primarySpec), s1all, s2all))

SelectFrom(common, s1all, s2all) ==
    BuyerISQs(PrimarySpec(common), common, s1all, s2all)

SelectWith(s1all, s2all) == SelectFrom(CommonSpecs(s1all, s2all), s1all, s2all)

\* selectStage3BuyerISQs of lines 629-694.
selectStage3BuyerISQs(stage1, stage2) == SelectWith(Stage1All(stage1), Stage2All(stage2))

\* The values lines 640, 643 and 653 hand to normalizeSpecName.
NormalizedNames(stage1, stage2) ==
    LET sellers == Get(stage1, KSellerSpecs).v
        OfMcat(mcat) ==
            [i \in 1..Len(SpecsOf(mcat, KPrimarySpecs)) |->
                Get(SpecsOf(mcat, KPrimarySpecs)[i], KSpecName)]
              \o [i \in 1..Len(SpecsOf(mcat, KSecondarySpecs)) |->
                    Get(SpecsOf(mcat, KSecondarySpecs)[i], KSpecName)]
        OfSeller(seller) ==
            ConcatAll([j \in 1..Len(Get(seller, KMcats).v) |-> OfMcat(Get(seller, KMcats).v[j])])
        s2 == <<Get(stage2, KConfig)>> \o Get(stage2, KKeys).v
                  \o OrElse(Get(stage2, KBuyers), JArr(<<>>)).v
    IN  ConcatAll([i \in 1..Len(sellers) |-> OfSeller(sellers[i])])
          \o [i \in 1..Len(s2) |-> Get(s2[i], KName)]

\* Every value of the list vals is a string.
AllStrings(vals) == \A i \in 1..Len(vals) : vals[i].t = "str"

\* A call of selectStage3BuyerISQs: it throws when a call of normalizeSpecName
\* does.
CallSelect(stage1, stage2) ==
    IF AllStrings(NormalizedNames(stage1, stage2))
    THEN Return(selectStage3BuyerISQs(stage1, stage2))
    ELSE Throw

-----------------------------------------------------------------------------
\* Inputs of the reconciler.

MaxMcats == 2

\* A Stage 1 spec { spec_name, options }.
MakeSpec(name, options) ==
    JObj(<<[k |-> KSpecName, val |-> JStr(name)], [k |-> KOptions, val |-> StrArray(options)]>>)

\* An MCAT with the given Primary, Secondary and Tertiary specs.
MakeMcat(primary, secondary, tertiary) ==
    JObj(<<[k |-> KFinalizedSpecs, val |->
        JObj(<<[k |-> KPrimarySpecs, val |-> JObj(<<[k |-> KSpecs, val |-> JArr(primary)]>>)],
               [k |-> KSecondarySpecs, val |-> JObj(<<[k |-> KSpecs, val |-> JArr(secondary)]>>)],
               [k |-> KTertiarySpecs, val |-> JObj(<<[k |-> KSpecs, val |-> JArr(tertiary)]>>)]>>)]>>)

\* A Stage 1 output with the MCATs under one PMCAT, or each under its own.
MakeStage1(mcats, split) ==
    JObj(<<[k |-> KSellerSpecs, val |->
        JArr(IF split
             THEN [i \in 1..Len(mcats) |-> JObj(<<[k |-> KMcats, val |-> JArr(<<mcats[i]>>)]>>)]
             ELSE <<JObj(<<[k |-> KMcats, val |-> JArr(mcats)]>>)>>)]>>)

SGrade == <<"G", "r", "a", "d", "e">>
SThicknessName == <<"T", "h", "i", "c", "k", "n", "e", "s", "s">>
SFinish == <<"F", "i", "n", "i", "s", "h">>
SSize == <<"S", "i", "z", "e">>
SMaterialGrade == <<"M", "a", "t", "e", "r", "i", "a", "l", " ", "G", "r", "a", "d", "e">>

GradeSpec == MakeSpec(SGrade, <<<<"3", "0", "4">>, <<"3", "1", "6">>>>)
ThicknessSpec == MakeSpec(SThicknessName, <<<<"1", "m", "m">>, <<"2", "m", "m">>>>)
FinishSpec == MakeSpec(SFinish, <<<<"B", "A">>, <<"2", "B">>, <<"B", "A">>>>)
SizeSpec == MakeSpec(SSize, <<<<"4", "x", "8">>, <<"5", "x", "1", "0">>>>)
MaterialGradeSpec == MakeSpec(SMaterialGrade, <<<<"2", "0", "2">>, <<"3", "1", "6">>, <<"a">>, <<"b">>, <<"c">>, <<"d">>, <<"e">>, <<"f">>, <<"g">>, <<"h">>>>)

PrimaryLists == {<<>>, <<GradeSpec>>, <<FinishSpec>>, <<MaterialGradeSpec>>}
SecondaryLists == {<<>>, <<ThicknessSpec>>}
TertiaryLists == {<<>>, <<SizeSpec>>}

Mcats ==
    {MakeMcat(p, s, t) : p \in PrimaryLists, s \in SecondaryLists, t \in TertiaryLists}

\* MCATs with Primary specs only.
PrimaryMcats == {MakeMcat(p, <<>>, <<>>) : p \in PrimaryLists}

RECURSIVE McatLists(_, _)
\* The lists of exactly n MCATs of the set ms.
McatLists(ms, n) ==
    IF n = 0 THEN {<<>>}
    ELSE {Append(l, m) : l \in McatLists(ms, n - 1), m \in ms}

\* Up to MaxMcats MCATs under one PMCAT, and MCATs with Primary specs under a
\* PMCAT each.
Stage1Outputs ==
    {MakeStage1(l, FALSE) : l \in UNION {McatLists(Mcats, n) : n \in 0..MaxMcats}}
      \cup {MakeStage1(l, TRUE) : l \in UNION {McatLists(PrimaryMcats, n) : n \in 0..MaxMcats}}

\* The example of the specification: Grade 304/316/304L and Thickness 2mm.
ExampleStage2 ==
    JObj(<<[k |-> KConfig, val |-> MakeISQ(SGrade, <<<<"3", "0", "4">>, <<"3", "1", "6">>, <<"3", "0", "4", "L">>>>)],
           [k |-> KKeys, val |-> JArr(<<MakeISQ(SThicknessName, <<<<"2", "m", "m">>>>)>>)]>>)

\* A config whose name normalizes to grade and whose first option is not a
\* Stage 1 option, with keys Thickness and Finish.
OrderStage2 ==
    MakeStage2(MakeISQ(<<"g", "r", "a", "d", "e", " ">>, <<<<"3", "0", "4", "L">>, <<"3", "0", "4">>>>),
               JArr(<<MakeISQ(SThicknessName, <<<<"2", "m", "m">>>>), MakeISQ(SFinish, <<<<"2", "B">>, <<"N", "o", ".", "4">>>>)>>),
               JArr(<<>>))

\* A config with ten options, one of them twice; Finish among the buyers only.
LongStage2 ==
    MakeStage2(MakeISQ(SMaterialGrade, <<<<"a">>, <<"b">>, <<"a">>, <<"c">>, <<"3", "1", "6">>, <<"d">>, <<"e">>, <<"f">>, <<"g">>, <<"h">>>>),
               JArr(<<MakeISQ(SSize, <<<<"4", "x", "8">>>>)>>),
               JArr(<<MakeISQ(SFinish, <<<<"2", "B">>, <<"N", "o", ".", "4">>>>)>>))

FinishStage2 ==
    MakeStage2(MakeISQ(SFinish, <<<<"2", "B">>, <<"N", "o", ".", "4">>>>),
               JArr(<<MakeISQ(SSize, <<<<"4", "x", "8">>>>), MakeISQ(SThicknessName, <<<<"2", "m", "m">>>>)>>),
               JArr(<<>>))

\* A key without a name, as a model answer can have it.
NamelessStage2 ==
    MakeStage2(MakeISQ(SGrade, <<<<"3", "0", "4">>, <<"3", "1", "6">>>>),
               JArr(<<JObj(<<[k |-> KOptions, val |-> StrArray(<<<<"2", "m", "m">>>>)]>>)>>),
               JArr(<<>>))

Stage2Outputs ==
    {ExampleStage2, generateFallbackStage2, OrderStage2, LongStage2, FinishStage2,
     NamelessStage2}

\* selectStage3BuyerISQs(stage1, stage2) is called and returns.
SelectCall ==
    /\ fn = "selectStage3BuyerISQs"
    /\ rets = <<>>
    /\ rets' = <<CallSelect(args[1], args[2])>>
    /\ UNCHANGED <<fn, args, appVars, retryVars, unwrapVars, stageVars>>

-----------------------------------------------------------------------------
\* Stage3Results: the common specs and buyer ISQs the Stage 3 tab shows.

TabTopOptions == 8

KInputType == <<"i", "n", "p", "u", "t", "_", "t", "y", "p", "e">>
KCategory == <<"c", "a", "t", "e", "g", "o", "r", "y">>
KPriority == <<"p", "r", "i", "o", "r", "i", "t", "y">>
KTabCommonSpecs == <<"c", "o", "m", "m", "o", "n", "S", "p", "e", "c", "s">>
KTabBuyerISQs == <<"b", "u", "y", "e", "r", "I", "S", "Q", "s">>

\* The words normalizeSpecName of Stage3Results removes, in the order of the
\* alternatives of line 249.
TabStripped ==
    <<SSheet, SPlate, SMaterial, SThickness, SThk, SType, SShape, SPerforation, SHole>>

\* normalizeSpecName of Stage3Results.tsx, lines 244-251.
tabNormalizeSpecName(name) ==
    Trim(ReplaceFrom(Trim(CollapseSpaceFrom(ToLower(name), 1)), 1, TabStripped, <<>>))

\* config, keys and buyers of isqs as one list.
AllIsqs(stage2) == <<Get(stage2, KConfig)>> \o Get(stage2, KKeys).v \o Get(stage2, KBuyers).v

\* Lines 170-178: the keys of stage2ISQNormalized.
Stage2Normalized(stage2) ==
    {tabNormalizeSpecName(Get(Get(stage2, KConfig), KName).v)}
      \cup {tabNormalizeSpecName(Get(Get(stage2, KKeys).v[i], KName).v) :
              i \in 1..Len(Get(stage2, KKeys).v)}

\* Lines 301-315: stage2Options, of the specs of isqs named specName.
Stage2OptionsOf(stage2, specName) ==
    UNION {{Get(AllIsqs(stage2)[i], KOptions).v[j] : j \in 1..Len(Get(AllIsqs(stage2)[i], KOptions).v)} :
              i \in {k \in 1..Len(AllIsqs(stage2)) : Get(AllIsqs(stage2)[k], KName) = specName}}

\* Lines 317-321, given stage2Options.
CombineOptions(allOptions, stage2Options) ==
    Slice0(SelectSeq(allOptions, LAMBDA opt : opt \in stage2Options)
              \o SelectSeq(allOptions, LAMBDA opt : opt \notin stage2Options),
           TabTopOptions)

\* A filterOptions that keeps the order of allOptions.
filterOptionsMutant(allOptions, stage2, specName) == Slice0(allOptions, TabTopOptions)

\* filterOptions of lines 296-322.
filterOptions(allOptions, stage2, specName) ==
    CombineOptions(allOptions, Stage2OptionsOf(stage2, specName))

\* Lines 194-199 and 213-218: the item pushed for a spec.
CommonSpecItem(spec, options, category) ==
    JObj(<<[k |-> KSpecName, val |-> Get(spec, KSpecName)],
           [k |-> KOptions, val |-> JArr(options)],
           [k |-> KInputType, val |-> Get(spec, KInputType)],
           [k |-> KCategory, val |-> JStr(category)]>>)

\* Lines 188-205 and 207-224: the items one tier of an MCAT pushes.
TabTierItems(specs, category, stage2, normalized) ==
    LET matching == SelectSeq(specs,
            LAMBDA spec : tabNormalizeSpecName(Get(spec, KSpecName).v) \in normalized)
    IN  [i \in 1..Len(matching) |->
            CommonSpecItem(matching[i],
                filterOptions(Get(matching[i], KOptions).v, stage2, Get(matching[i], KSpecName)),
                category)]

\* Lines 184-226: what the loops push on primarySpecs (key KPrimarySpecs) or
\* on secondarySpecs.
TabItems(stage1, key, category, stage2, normalized) ==
    LET sellers == Get(stage1, KSellerSpecs).v
        OfSeller(seller) ==
            ConcatAll([j \in 1..Len(Get(seller, KMcats).v) |->
                TabTierItems(SpecsOf(Get(seller, KMcats).v[j], key), category, stage2, normalized)])
    IN  ConcatAll([i \in 1..Len(sellers) |-> OfSeller(sellers[i])])

\* Lines 265-289: the candidate pushed for a spec.
Candidate(spec, category, whenKey, whenNot, normalized) ==
    JObj(<<[k |-> KSpecName, val |-> Get(spec, KSpecName)],
           [k |-> KOptions, val |-> Get(spec, KOptions)],
           [k |-> KCategory, val |-> JStr(category)],
           [k |-> KPriority, val |->
               JNum(IF tabNormalizeSpecName(Get(spec, KSpecName).v) \in normalized
                    THEN whenKey ELSE whenNot)]>>)

\* candidates.sort((a, b) => a.priority - b.priority): the sort is stable.
SortByPriority(candidates) ==
    ConcatAll([n \in 1..4 |->
        SelectSeq(candidates, LAMBDA c : Get(c, KPriority) = JNum(n - 1))])

\* selectTopBuyerISQs of lines 253-294.
selectTopBuyerISQs(primarySpecs, secondarySpecs, normalized) ==
    Slice0(SortByPriority(
               [i \in 1..Len(primarySpecs) |->
                   Candidate(primarySpecs[i], SPrimary, 0, 1, normalized)]
                 \o [i \in 1..Len(secondarySpecs) |->
                       Candidate(secondarySpecs[i], SSecondary, 2, 3, normalized)]),
           2)

\* Lines 228-241, given primarySpecs, secondarySpecs and the keys of
\* stage2ISQNormalized.
TabResult(primarySpecs, secondarySpecs, normalized) ==
    JObj(<<[k |-> KTabCommonSpecs, val |-> JArr(primarySpecs \o secondarySpecs)],
           [k |-> KTabBuyerISQs, val |->
               JArr(selectTopBuyerISQs(primarySpecs, secondarySpecs, normalized))]>>)

TabWith(stage1, stage2, normalized) ==
    TabResult(TabItems(stage1, KPrimarySpecs, SPrimary, stage2, normalized),
              TabItems(stage1, KSecondarySpecs, SSecondary, stage2, normalized),
              normalized)

\* extractCommonAndBuyerSpecs of lines 166-242.
extractCommonAndBuyerSpecs(stage1, stage2) == TabWith(stage1, stage2, Stage2Normalized(stage2))

-----------------------------------------------------------------------------
\* App: what the Stage 3 JSON download contains.

KCommonSpecs == <<"c", "o", "m", "m", "o", "n", "_", "s", "p", "e", "c", "s">>
KBuyerIsqs == <<"b", "u", "y", "e", "r", "_", "i", "s", "q", "s">>

\* Lines 233-237: stage2ISQNames.
Stage2ISQNames(stage2) == {Get(AllIsqs(stage2)[i], KName) : i \in 1..Len(AllIsqs(stage2))}

\* Lines 248-268: the items one tier of an MCAT pushes.
DownloadTierItems(specs, category, names) ==
    LET matching == SelectSeq(specs, LAMBDA spec : Get(spec, KSpecName) \in names)
    IN  [i \in 1..Len(matching) |->
            CommonSpecItem(matching[i], Get(matching[i], KOptions).v, category)]

\* Lines 243-270: what the loops push on primarySpecs or on secondarySpecs.
DownloadItems(stage1, key, category, names) ==
    LET sellers == Get(stage1, KSellerSpecs).v
        OfSeller(seller) ==
            ConcatAll([j \in 1..Len(Get(seller, KMcats).v) |->
                DownloadTierItems(SpecsOf(Get(seller, KMcats).v[j], key), category, names)])
    IN  ConcatAll([i \in 1..Len(sellers) |-> OfSeller(sellers[i])])

SpecNamesOf(items) == {Get(items[i], KSpecName) : i \in 1..Len(items)}

\* Lines 300-304: the item pushed for a buyer.
BuyerItem(buyer, primarySpecNames) ==
    JObj(<<[k |-> KSpecName, val |-> Get(buyer, KName)],
           [k |-> KOptions, val |-> Get(buyer, KOptions)],
           [k |-> KCategory, val |->
               JStr(IF Get(buyer, KName) \in primarySpecNames THEN SPrimary ELSE SSecondary)]>>)

\* filterBuyerISQs of lines 280-308.
filterBuyerISQs(primarySpecs, secondarySpecs, buyerISQList) ==
    LET validBuyerISQs == SelectSeq(buyerISQList,
            LAMBDA buyer : Get(buyer, KName) \in SpecNamesOf(primarySpecs) \cup SpecNamesOf(secondarySpecs))
    IN  [i \in 1..(IF Len(validBuyerISQs) > 2 THEN 2 ELSE Len(validBuyerISQs)) |->
            BuyerItem(validBuyerISQs[i], SpecNamesOf(primarySpecs))]

\* Lines 272-277.
DownloadResult(primarySpecs, secondarySpecs, buyers) ==
    JObj(<<[k |-> KCommonSpecs, val |-> JArr(primarySpecs \o secondarySpecs)],
           [k |-> KBuyerIsqs, val |-> JArr(filterBuyerISQs(primarySpecs, secondarySpecs, buyers))]>>)

\* extractCommonSpecs of lines 229-278.
extractCommonSpecs(stage1, stage2) ==
    DownloadResult(DownloadItems(stage1, KPrimarySpecs, SPrimary, Stage2ISQNames(stage2)),
                   DownloadItems(stage1, KSecondarySpecs, SSecondary, Stage2ISQNames(stage2)),
                   Get(stage2, KBuyers).v)

\* Inputs of the Stage 3 tab: the stage1Data and isqs of App.

SShapeName == <<"S", "h", "a", "p", "e">>
STypeName == <<"T", "y", "p", "e">>

ShapeSpec == MakeSpec(SShapeName, <<<<"R", "o", "u", "n", "d">>, <<"S", "q", "u", "a", "r", "e">>>>)

TabMcats ==
    {MakeMcat(<<GradeSpec>>, <<ThicknessSpec>>, <<>>),
     MakeMcat(<<FinishSpec>>, <<>>, <<SizeSpec>>),
     MakeMcat(<<MaterialGradeSpec>>, <<>>, <<>>),
     MakeMcat(<<>>, <<ShapeSpec>>, <<>>)}

TabStage1Data == {MakeStage1(l, FALSE) : l \in UNION {McatLists(TabMcats, n) : n \in 0..MaxMcats}}

\* Config Finish with one of the Stage 1 options, and a key Type.
TypeStage2 ==
    MakeStage2(MakeISQ(SFinish, <<<<"2", "B">>>>),
               JArr(<<MakeISQ(STypeName, <<<<"R", "o", "u", "n", "d">>>>)>>),
               JArr(<<>>))

\* Lines 196-200 of api.ts: what extractISQWithGemini returns always has keys
\* and buyers.
ReturnedIsqs(parsed) ==
    MakeStage2(Get(parsed, KConfig), OrElse(Get(parsed, KKeys), JArr(<<>>)),
               OrElse(Get(parsed, KBuyers), JArr(<<>>)))

TabIsqs ==
    {ReturnedIsqs(parsed) :
        parsed \in {ExampleStage2, OrderStage2, LongStage2, TypeStage2, generateFallbackStage2}}

\* The Stage 3 tab is shown: Stage3Results calls extractCommonAndBuyerSpecs
\* (Stage3Results.tsx, line 31).
TabCall ==
    /\ fn = "Stage3Results"
    /\ rets = <<>>
    /\ rets' = <<Return(extractCommonAndBuyerSpecs(args[1], args[2]))>>
    /\ UNCHANGED <<fn, args, appVars, retryVars, unwrapVars, stageVars>>

\* The download button under the tab is clicked: handleDownloadStage3JSON
\* (App.tsx, lines 83-93) calls extractCommonSpecs.
DownloadCall ==
    /\ fn = "Stage3Results"
    /\ Len(rets) = 1
    /\ rets' = Append(rets, Return(extractCommonSpecs(args[1], args[2])))
    /\ UNCHANGED <<fn, args, appVars, retryVars, unwrapVars, stageVars>>

-----------------------------------------------------------------------------
\* App: the state of the component and its handlers.

MaxRuns == 2

SStage1Tab == "stage1"
Tabs == {"stage1", "stage2", "stage3"}

\* The state after construction: lines 14-21.
AppIdle ==
    /\ uiStage = "stage0"
    /\ inputData = JNull
    /\ stage1Data = JNull
    /\ isqs = JNull
    /\ loading = FALSE
    /\ error = <<>>
    /\ activeTab = SStage1Tab
    /\ processingStage = <<>>
    /\ runs = <<>>

\* The inputs the form submits; each stands for an InputData with at least
\* one MCAT and one URL.
Inputs == {JNum(1), JNum(2)}

\* What generateStage1WithGemini resolves with and rejects with.
Stage1Values ==
    {generateFallbackStage1, MakeStage1(<<MakeMcat(<<GradeSpec>>, <<ThicknessSpec>>, <<>>)>>, FALSE)}
Stage1Errors == {ConfigMessage(1), QuotaMessage(1)}

\* What extractISQWithGemini resolves with and rejects with.
Stage2Values == {generateFallbackStage2, ExampleStage2}
Stage2Errors == {ConfigMessage(2), QuotaMessage(2)}

\* A form that can be submitted whatever loading is.
CanSubmitMutant(isLoading) == TRUE

\* Stage0Input is rendered with loading (line 117) and disables its submit
\* button and every other control with it (part_001, lines 125-229).
CanSubmit(isLoading) == ~isLoading

\* A continuation that goes on to Stage 2 whatever Stage 1 ended with.
AfterStage1Mutant(outcome) == "pending"

\* Lines 33-37 and 42: what becomes of the Stage 2 call once the Stage 1 call
\* has settled.
AfterStage1(outcome) == IF outcome = "resolved" THEN "pending" ELSE "none"

\* A catch block that sets no message.
ErrorTextMutant(msg) == <<>>

\* `Error: ${err.message}` of line 43.
ErrorText(msg) == <<"Error: ">> \o msg

\* The form is submitted: handleSubmit (part_001, lines 46-62) calls onSubmit,
\* handleStage0Submit runs lines 24-33 up to its first await.
Submit(d) ==
    /\ uiStage = "stage0"
    /\ CanSubmit(loading)
    /\ Len(runs) < MaxRuns
    /\ inputData' = d
    /\ loading' = TRUE
    /\ error' = <<>>
    /\ stage1Data' = JNull
    /\ isqs' = JNull
    /\ activeTab' = SStage1Tab
    /\ processingStage' = <<"Generating Stage 1 specifications...">>
    /\ runs' = Append(runs, [data |-> d, s1 |-> "pending", s2 |-> "none"])
    /\ UNCHANGED <<uiStage, retryVars, unwrapVars, stageVars, pureVars>>

\* await generateStage1WithGemini(data) resolves: lines 34-37, up to the
\* second await.
AppStage1Resolves(r, result1) ==
    /\ runs[r].s1 = "pending"
    /\ stage1Data' = result1
    /\ processingStage' = <<"Extracting Stage 2 ISQs from URLs...">>
    /\ runs' = [runs EXCEPT ![r].s1 = "resolved", ![r].s2 = AfterStage1("resolved")]
    /\ UNCHANGED <<uiStage, inputData, isqs, loading, error, activeTab>>
    /\ UNCHANGED <<retryVars, unwrapVars, stageVars, pureVars>>

\* await generateStage1WithGemini(data) rejects: lines 42-47.
AppStage1Rejects(r, msg) ==
    /\ runs[r].s1 = "pending"
    /\ error' = ErrorText(msg)
    /\ loading' = FALSE
    /\ processingStage' = <<>>
    /\ runs' = [runs EXCEPT ![r].s1 = "rejected", ![r].s2 = AfterStage1("rejected")]
    /\ UNCHANGED <<uiStage, inputData, stage1Data, isqs, activeTab>>
    /\ UNCHANGED <<retryVars, unwrapVars, stageVars, pureVars>>

\* await extractISQWithGemini(data, data.urls) resolves: lines 38-41 and 46-47.
AppStage2Resolves(r, result2) ==
    /\ runs[r].s2 = "pending"
    /\ isqs' = result2
    /\ uiStage' = "stages"
    /\ loading' = FALSE
    /\ processingStage' = <<>>
    /\ runs' = [runs EXCEPT ![r].s2 = "resolved"]
    /\ UNCHANGED <<inputData, stage1Data, error, activeTab>>
    /\ UNCHANGED <<retryVars, unwrapVars, stageVars, pureVars>>

\* await extractISQWithGemini(data, data.urls) rejects: lines 42-47.
AppStage2Rejects(r, msg) ==
    /\ runs[r].s2 = "pending"
    /\ error' = ErrorText(msg)
    /\ loading' = FALSE
    /\ processingStage' = <<>>
    /\ runs' = [runs EXCEPT ![r].s2 = "rejected"]
    /\ UNCHANGED <<uiStage, inputData, stage1Data, isqs, activeTab>>
    /\ UNCHANGED <<retryVars, unwrapVars, stageVars, pureVars>>

\* The results view is rendered: line 119.
ResultsShown == uiStage = "stages" /\ Truthy(stage1Data)

\* The Reset button of the results view is clicked: handleReset, lines 51-58.
Reset ==
    /\ ResultsShown
    /\ uiStage' = "stage0"
    /\ inputData' = JNull
    /\ stage1Data' = JNull
    /\ isqs' = JNull
    /\ error' = <<>>
    /\ activeTab' = SStage1Tab
    /\ UNCHANGED <<loading, processingStage, runs>>
    /\ UNCHANGED <<retryVars, unwrapVars, stageVars, pureVars>>

\* A tab button of the results view is clicked: lines 139, 149-150, 162-163.
SetActiveTab(tab) ==
    /\ ResultsShown
    /\ tab = SStage1Tab \/ Truthy(isqs)
    /\ activeTab' = tab
    /\ UNCHANGED <<uiStage, inputData, stage1Data, isqs, loading, error, processingStage, runs>>
    /\ UNCHANGED <<retryVars, unwrapVars, stageVars, pureVars>>

\* A stage call of a run settles.
StageSettles ==
    \E r \in 1..Len(runs) :
        \/ \E result1 \in Stage1Values : AppStage1Resolves(r, result1)
        \/ \E msg \in Stage1Errors : AppStage1Rejects(r, msg)
        \/ \E result2 \in Stage2Values : AppStage2Resolves(r, result2)
        \/ \E msg \in Stage2Errors : AppStage2Rejects(r, msg)

-----------------------------------------------------------------------------
\* compareResults.

KChatgptUnique == <<"c", "h", "a", "t", "g", "p", "t", "_", "u", "n", "i", "q", "u", "e", "_", "s", "p", "e", "c", "s">>
KGeminiUnique == <<"g", "e", "m", "i", "n", "i", "_", "u", "n", "i", "q", "u", "e", "_", "s", "p", "e", "c", "s">>

\* Lines 744-746: the names one MCAT pushes, of all three tiers.
McatNames(mcat) ==
    LET NamesIn(key) == [i \in 1..Len(SpecsOf(mcat, key)) |-> Get(SpecsOf(mcat, key)[i], KSpecName).v]
    IN  NamesIn(KPrimarySpecs) \o NamesIn(KSecondarySpecs) \o NamesIn(KTertiarySpecs)

\* extractAllSpecNames of lines 738-750.
extractAllSpecNames(specs) ==
    LET sellers == Get(specs, KSellerSpecs).v
        OfSeller(seller) ==
            ConcatAll([j \in 1..Len(Get(seller, KMcats).v) |-> McatNames(Get(seller, KMcats).v[j])])
    IN  ConcatAll([i \in 1..Len(sellers) |-> OfSeller(sellers[i])])

\* normalizeSpecName of every name of a list.
NormalizeAll(names) == [i \in 1..Len(names) |-> normalizeSpecName(names[i])]

\* A some() that holds as soon as the other list has a name.
SomeSameMutant(norm, otherNorms) == otherNorms # <<>>

\* others.some(o => normalizeSpecName(o) === normalizeSpecName(name)), given
\* the normalized names.
SomeSame(norm, otherNorms) == \E j \in 1..Len(otherNorms) : otherNorms[j] = norm

RECURSIVE FilterNames(_, _, _, _, _)
\* names.filter from element i on: the names for which SomeSame is keep.
FilterNames(names, norms, otherNorms, keep, i) ==
    IF i > Len(names) THEN <<>>
    ELSE (IF SomeSame(norms[i], otherNorms) = keep THEN <<names[i]>> ELSE <<>>)
            \o FilterNames(names, norms, otherNorms, keep, i + 1)

\* Lines 718-734, given the names and their normalized names.
CompareNames(chatgptNames, geminiNames, chatgptNorms, geminiNorms) ==
    JObj(<<[k |-> KCommonSpecs, val |->
               StrArray(DedupeFrom(FilterNames(chatgptNames, chatgptNorms, geminiNorms, TRUE, 1), 1, <<>>))],
           [k |-> KChatgptUnique, val |->
               StrArray(DedupeFrom(FilterNames(chatgptNames, chatgptNorms, geminiNorms, FALSE, 1), 1, <<>>))],
           [k |-> KGeminiUnique, val |->
               StrArray(DedupeFrom(FilterNames(geminiNames, geminiNorms, chatgptNorms, FALSE, 1), 1, <<>>))]>>)

CompareLists(chatgptNames, geminiNames) ==
    CompareNames(chatgptNames, geminiNames, NormalizeAll(chatgptNames), NormalizeAll(geminiNames))

\* compareResults of lines 711-735.
compareResults(chatgptSpecs, geminiSpecs) ==
    CompareLists(extractAllSpecNames(chatgptSpecs), extractAllSpecNames(geminiSpecs))

\* Inputs of compareResults.

MaxNames == 2

SGradeSpaced == <<"g", "r", "a", "d", "e", " ">>
SMaterialName == <<"M", "a", "t", "e", "r", "i", "a", "l">>
SPlateName == <<"P", "l", "a", "t", "e">>

CompareNamePool == {SGrade, SGradeSpaced, SMaterialName, SPlateName, SSize}

RECURSIVE SpecListsOf(_)
\* The lists of exactly n specs with names of the pool.
SpecListsOf(n) ==
    IF n = 0 THEN {<<>>}
    ELSE {Append(l, MakeSpec(name, <<>>)) : l \in SpecListsOf(n - 1), name \in CompareNamePool}

\* The first run: up to MaxNames Primary specs, and a Tertiary spec or none.
ChatgptRuns ==
    {MakeStage1(<<MakeMcat(p, <<>>, t)>>, FALSE) :
        p \in UNION {SpecListsOf(n) : n \in 0..MaxNames},
        t \in {<<>>, <<MakeSpec(SSize, <<>>)>>}}

\* The second run: a Secondary spec or none, and a Tertiary spec or none.
GeminiRuns ==
    {MakeStage1(<<MakeMcat(<<>>, sec, t)>>, FALSE) :
        sec \in UNION {SpecListsOf(n) : n \in 0..1},
        t \in {<<>>, <<MakeSpec(SPlateName, <<>>)>>}}

\* compareResults(chatgptSpecs, geminiSpecs) is called and returns.
CompareCall ==
    /\ fn = "compareResults"
    /\ rets = <<>>
    /\ rets' = <<Return(compareResults(args[1], args[2]))>>
    /\ UNCHANGED <<fn, args, appVars, retryVars, unwrapVars, stageVars>>

-----------------------------------------------------------------------------
\* Inputs of normalizeSpecName: names made of pieces.

MaxPieces == 3

NamePieces ==
    {<<"s", "h", "e">>,
     <<"e", "t">>,
     <<"s", "h", "e", "e", "t">>,
     <<"p", "l", "a", "t", "e">>,
     <<"t", "h", "k">>,
     <<"t", "y">>,
     <<"p", "e">>,
     <<" ">>,
     <<"T", "y", "p", "e">>}

RECURSIVE NamesOf(_)
\* The names made of exactly n pieces.
NamesOf(n) ==
    IF n = 0 THEN {<<>>}
    ELSE {name \o piece : name \in NamesOf(n - 1), piece \in NamePieces}

SThkName == <<"T", "h", "k">>
SThkSpaced == <<" ", "T", "H", "K", " ">>

\* The names made of pieces, and three spellings of one name.
Names == (UNION {NamesOf(n) : n \in 0..MaxPieces}) \cup {SThkName, SThicknessName, SThkSpaced}

\* The values normalizeSpecName is called with: strings, and what a name
\* missing from a model answer or of another type is.
NameValues == {JStr(name) : name \in Names} \cup {JUndefined, JNull, JNum(304)}

\* normalizeSpecName(name) is called and returns.
NormalizeCall ==
    /\ fn = "normalizeSpecName"
    /\ rets = <<>>
    /\ rets' = <<CallNormalize(args[1])>>
    /\ UNCHANGED <<fn, args, appVars, retryVars, unwrapVars, stageVars>>

\* normalizeSpecName is called with the string it returned.
NormalizeAgain ==
    /\ fn = "normalizeSpecName"
    /\ Len(rets) = 1
    /\ rets[1].kind = "return"
    /\ rets' = Append(rets, CallNormalize(rets[1].v))
    /\ UNCHANGED <<fn, args, appVars, retryVars, unwrapVars, stageVars>>

-----------------------------------------------------------------------------
\* Specification of one call of fetchWithRetry with any parameters.

InitRetry ==
    /\ retries \in 0..MaxRetries
    /\ baseDelay \in BaseDelays
    /\ attempt = 0
    /\ lastStatus = 0
    /\ fpc = "fetch"
    /\ fres = NoResult
    /\ log = <<>>
    /\ data = JUndefined
    /\ ures = Pending
    /\ StageIdle
    /\ PureIdle
    /\ AppIdle

NextRetry ==
    \/ FetchResolves
    \/ FetchRejects
    \/ SleepResolves
    \/ TextResolves

SpecRetry == InitRetry /\ [][NextRetry]_vars

-----------------------------------------------------------------------------
\* Specification of one call of extractJSONFromGemini on any response.

RetryIdle ==
    /\ retries = DefaultRetries
    /\ baseDelay = DefaultBaseDelay
    /\ attempt = 0
    /\ lastStatus = 0
    /\ fpc = "idle"
    /\ fres = NoResult
    /\ log = <<>>

InitUnwrap ==
    /\ RetryIdle
    /\ data \in UnwrapInputs
    /\ ures = Pending
    /\ StageIdle
    /\ PureIdle
    /\ AppIdle

NextUnwrap == UnwrapCall

SpecUnwrap == InitUnwrap /\ [][NextUnwrap]_vars

-----------------------------------------------------------------------------
\* Specification of one call of a stage function, with the keys of any
\* environment and any number of URLs.

Init ==
    /\ RetryIdle
    /\ data = JUndefined
    /\ ures = Pending
    /\ env1 \in EnvValues
    /\ env2 \in EnvValues
    /\ stage = "none"
    /\ spc = "idle"
    /\ sres = StagePending
    /\ errorMsg = JUndefined
    /\ \E n \in 0..MaxUrls : pages = [i \in 1..n |-> NewPage]
    /\ urlContents = <<>>
    /\ PureIdle
    /\ AppIdle

Next ==
    \/ Stage1Call
    \/ Stage1JsonResolves
    \/ Stage1JsonRejects
    \/ Stage1Catches
    \/ Stage2Call
    \/ Stage2ThrottleResolves
    \/ \E i \in 1..Len(pages) : PageFetchResolves(i)
    \/ \E i \in 1..Len(pages) : PageFetchRejects(i)
    \/ \E i \in 1..Len(pages), t \in PageTexts : PageTextResolves(i, t)
    \/ \E i \in 1..Len(pages) : PageTextRejects(i)
    \/ Stage2PagesResolve
    \/ Stage2JsonResolves
    \/ Stage2JsonRejects
    \/ Stage2Catches
    \/ FetchResolves
    \/ FetchRejects
    \/ SleepResolves
    \/ TextResolves

Spec == Init /\ [][Next]_vars

-----------------------------------------------------------------------------
\* Specification of one call of selectStage3BuyerISQs on any two stage
\* outputs.

InitSelect ==
    /\ RetryIdle
    /\ data = JUndefined
    /\ ures = Pending
    /\ StageIdle
    /\ AppIdle
    /\ fn = "selectStage3BuyerISQs"
    /\ \E s1 \in Stage1Outputs, s2 \in Stage2Outputs : args = <<s1, s2>>
    /\ rets = <<>>

NextSelect == SelectCall

SpecSelect == InitSelect /\ [][NextSelect]_vars

-----------------------------------------------------------------------------
\* Specification of normalizeSpecName applied to a name and to its result.

InitNormalize ==
    /\ RetryIdle
    /\ data = JUndefined
    /\ ures = Pending
    /\ StageIdle
    /\ AppIdle
    /\ fn = "normalizeSpecName"
    /\ \E name \in NameValues : args = <<name>>
    /\ rets = <<>>

NextNormalize == NormalizeCall \/ NormalizeAgain

SpecNormalize == InitNormalize /\ [][NextNormalize]_vars

-----------------------------------------------------------------------------
\* Specification of one call of compareResults.

InitCompare ==
    /\ RetryIdle
    /\ data = JUndefined
    /\ ures = Pending
    /\ StageIdle
    /\ AppIdle
    /\ fn = "compareResults"
    /\ \E a \in ChatgptRuns, b \in GeminiRuns : args = <<a, b>>
    /\ rets = <<>>

NextCompare == CompareCall

SpecCompare == InitCompare /\ [][NextCompare]_vars

-----------------------------------------------------------------------------
\* Specification of the Stage 3 tab and of the download under it.

InitTab ==
    /\ RetryIdle
    /\ data = JUndefined
    /\ ures = Pending
    /\ StageIdle
    /\ AppIdle
    /\ fn = "Stage3Results"
    /\ \E s1 \in TabStage1Data, s2 \in TabIsqs : args = <<s1, s2>>
    /\ rets = <<>>

NextTab == TabCall \/ DownloadCall

SpecTab == InitTab /\ [][NextTab]_vars

-----------------------------------------------------------------------------
\* Specification of App: submits, settling stage calls, resets and tab clicks.

InitApp ==
    /\ RetryIdle
    /\ data = JUndefined
    /\ ures = Pending
    /\ StageIdle
    /\ PureIdle
    /\ AppIdle

NextApp ==
    \/ \E d \in Inputs : Submit(d)
    \/ StageSettles
    \/ Reset
    \/ \E tab \in Tabs : SetActiveTab(tab)

SpecApp == InitApp /\ [][NextApp]_vars

\* Every stage call settles: each ends in a return or a throw after a bounded
\* number of awaited network calls.
SpecAppLive == SpecApp /\ WF_vars(StageSettles)

-----------------------------------------------------------------------------
\* Observations on the log, used by the properties below.

FetchIdx == {i \in 1..Len(log) : log[i].ev = "fetch"}
SleepIdx == {i \in 1..Len(log) : log[i].ev = "sleep"}
NumFetches == Cardinality(FetchIdx)

\* The attempt number (from 0) of the fetch logged at position i.
AttemptAt(i) == Cardinality({j \in FetchIdx : j < i})

\* The statuses named by the contract, written out independently of the model.
OverloadStatuses == {429, 502, 503}
IsSuccess(st) == st \in 200..299
IsOtherFailure(st) == st >= 100 /\ ~IsSuccess(st) /\ st \notin OverloadStatuses

AllOverloadedSoFar ==
    \A i \in FetchIdx : log[i].n \in OverloadStatuses

-----------------------------------------------------------------------------
\* C1: fetchWithRetry makes at most retries+1 fetches; when every response so
\* far is 429, 502 or 503 the call keeps going until it has made exactly
\* retries+1 fetches and then fails with the overload error; and a 2xx response
\* ends the call at once: it is the last thing the call does and is returned.
C1_RetryBudget ==
    /\ NumFetches <= retries + 1
    /\ AllOverloadedSoFar =>
          IF NumFetches = retries + 1
          THEN fpc = "thrown" /\ fres.kind = "error" /\ fres.tag = "overload"
          ELSE fpc \in {"fetch", "sleep"} /\ fres.kind = "none"
    /\ \A i \in FetchIdx :
          IsSuccess(log[i].n) =>
             /\ i = Len(log)
             /\ fpc = "returned"
             /\ fres = Returned(log[i].n)
             /\ \A j \in FetchIdx : j < i => ~IsSuccess(log[j].n)

\* Every attempt was overloaded, more than one retry was allowed, and the call
\* has failed.
C1_Witness ==
    /\ retries >= 2
    /\ AllOverloadedSoFar
    /\ NumFetches = retries + 1
    /\ fpc = "thrown" /\ fres.tag = "overload"

C3_Backoff ==
    /\ \A i \in SleepIdx :
          /\ i > 1
          /\ log[i - 1].ev = "fetch" /\ log[i - 1].n \in OverloadStatuses
          /\ AttemptAt(i - 1) < retries
          /\ log[i].n = baseDelay * Pow2(AttemptAt(i - 1))
    /\ \A i \in FetchIdx :
          (log[i].n \in OverloadStatuses /\ AttemptAt(i) < retries)
             => (i + 1) \in SleepIdx
    /\ \A i, j \in SleepIdx :
          (i < j /\ ~(\E m \in SleepIdx : i < m /\ m < j)) => log[j].n = 2 * log[i].n

\* Two waits have been made with the default base delay: 5000 then 10000 ms.
C3_Witness ==
    /\ baseDelay = DefaultBaseDelay
    /\ Cardinality(SleepIdx) >= 2
    /\ \E i, j \in SleepIdx : log[i].n = 5000 /\ log[j].n = 10000

-----------------------------------------------------------------------------
\* The text of a response that holds one text part and nothing else.
SoleText(d) ==
    Get(First(OptGet(OptGet(First(OptGet(d, KCandidates)), KContent), KParts)), KText)

IsTextResponse(d) == SoleText(d).t = "str" /\ d = TextResponse(SoleText(d).v)

\* The response names no candidate at all.
HasNoCandidates(d) ==
    d \in { JUndefined, JNull, JObj(<<>>), JNum(1), JStr(<<"x">>),
            WithCandidates(JNull), WithCandidates(JArr(<<>>)) }

\* The first candidate carries no text (and no structured JSON field).
HasNoText(d) ==
    d \in { WithCandidates(JArr(<<JNull>>)), WithCandidates(JArr(<<JObj(<<>>)>>)),
            WithContent(JNull), WithContent(JObj(<<>>)), WithContent(JNum(1)),
            WithContent(JObj(<<[k |-> <<"r", "o", "l", "e">>, val |-> JStr(<<"m">>)]>>)),
            WithParts(<<>>), WithParts(<<JNull>>), WithParts(<<JUndefined>>),
            WithParts(<<JObj(<<>>)>>), WithParts(<<JNum(1)>>),
            WithParts(<<JObj(<<[k |-> KText, val |-> JNum(1)]>>)>>),
            WithParts(<<TextPart(<<" ">>), TextPart(<<"\n">>)>>),
            TextResponse(<<>>), TextResponse(<<"\n">>) }

\* The text holds no { followed somewhere by a }.
HasNoObject(text) ==
    ~\E i, j \in 1..Len(text) : i < j /\ text[i] = "{" /\ text[j] = "}"

\* What JSON.parse is given for a response with the one text part text.
CleanedText(text) ==
    DropTrailingCommas(BraceSpan(StripFences(text \o <<"\n">>)))

\* C4 as stated: the unwrapper never throws, and a response with no
\* candidates, a candidate with no text, text with no JSON object and text that
\* fails to parse each yield null.
C4_NullForEveryMalformedInput ==
    ures.kind # "none" =>
       /\ ures.kind = "return"
       /\ HasNoCandidates(data) => ures.v = JNull
       /\ HasNoText(data) => ures.v = JNull
       /\ (IsTextResponse(data) /\ HasNoObject(SoleText(data).v)) => ures.v = JNull
       /\ (IsTextResponse(data) /\ ~JsonParse(CleanedText(SoleText(data).v)).ok)
             => ures.v = JNull

\* C4 as amended: the unwrapper never throws; a response with no candidates, a
\* candidate with no text and text that fails to parse each yield null; text
\* with no JSON object yields null unless the whole text, cleaned of fences
\* and trailing commas, is itself JSON (a number, a string, an array, true or
\* false), which is then returned.
C4_NeverThrows ==
    ures.kind # "none" =>
       /\ ures.kind = "return"
       /\ HasNoCandidates(data) => ures.v = JNull
       /\ HasNoText(data) => ures.v = JNull
       /\ (IsTextResponse(data) /\ HasNoObject(SoleText(data).v)) =>
             \/ ures.v = JNull
             \/ /\ ures.v.t \in {"num", "str", "arr", "bool"}
                /\ JsonParse(CleanedText(SoleText(data).v)) = [ok |-> TRUE, v |-> ures.v]
       /\ (IsTextResponse(data) /\ ~JsonParse(CleanedText(SoleText(data).v)).ok)
             => ures.v = JNull

\* The loop over the parts met a null part, which throws inside the function,
\* and the call has returned null.
C4_Witness ==
    /\ data = WithParts(<<TextPart(<<"1">>), JNull>>)
    /\ ures = Return(JNull)

\* "Sure! Here's the JSON: \n{\"a\":1,}"
ExampleStripped ==
    <<"S", "u", "r", "e", "!", " ", "H", "e", "r", "e", "'", "s", " ", "t",
    "h", "e", " ", "J", "S", "O", "N", ":", " ", "\n", "{", "\"", "a",
    "\"", ":", "1", ",", "}">>

\* C5: on the example (prose, then a ```json fence around {"a":1,}) the
\* unwrapper strips the fence markers, keeps the text from the first { to the
\* last }, removes the trailing comma and returns the object {a:1}.
C5_ExampleParses ==
    /\ StripFences(ExampleText \o <<"\n">>) = ExampleStripped
    /\ BraceSpan(ExampleStripped) = <<"{", "\"", "a", "\"", ":", "1", ",", "}">>
    /\ DropTrailingCommas(BraceSpan(ExampleStripped)) = <<"{", "\"", "a", "\"", ":", "1", "}">>
    /\ (data = TextResponse(ExampleText) /\ ures.kind # "none") => ures = Return(ObjA1)

\* The example has been unwrapped to {a:1}.
C5_Witness ==
    /\ data = TextResponse(ExampleText)
    /\ ures = Return(ObjA1)

-----------------------------------------------------------------------------
\* Properties of the stage functions, under Spec.

\* An environment value that leaves no key after trimming.
KeyAbsent(env) ==
    env.t = "undefined" \/ \A i \in 1..Len(env.v) : env.v[i] \in JsSpace

StageNo == IF stage = "stage1" THEN 1 ELSE 2
StageEnv == IF stage = "stage1" THEN env1 ELSE env2
StageFallback ==
    IF stage = "stage1" THEN generateFallbackStage1 ELSE generateFallbackStage2

\* The stage function has ended.
StageDone == stage # "none" /\ spc = "done"

\* The retried call failed: fetchWithRetry threw.
CallFailed == fpc = "thrown"

\* The retried call gave up on HTTP 429.
Http429Failure == CallFailed /\ fres.tag = "overload" /\ lastStatus = 429

\* The retried call failed on a quota or rate-limit error: HTTP 429, or an
\* error message containing "quota".
QuotaFailure == CallFailed /\ (Http429Failure \/ Includes(fres.msg, SQuota))

\* The body of the answer was decoded: response.json() resolved.
BodyDecoded == fpc = "returned" /\ errorMsg = JUndefined /\ StageDone

ThrewQuota == sres.kind = "throw" /\ sres.v = JStr(QuotaMessage(StageNo))
ThrewConfig == sres.kind = "throw" /\ sres.v = JStr(ConfigMessage(StageNo))
ReturnedFallback == sres.kind = "return" /\ sres.v = StageFallback

NumPrompts == Cardinality({i \in 1..Len(log) : log[i].ev = "prompt"})

\* C6: whenever the unwrapper returns null, or the retried call fails with an
\* error that is not a quota error, Stage 1 returns the fallback
\* { seller_specs: [] } and does not throw.
C6_Stage1FallsBack ==
    (/\ stage = "stage1" /\ StageDone
     /\ \/ BodyDecoded /\ extractJSONFromGemini(data).v = JNull
        \/ CallFailed /\ ~QuotaFailure)
        => ReturnedFallback

\* C7: whenever the retried call of Stage 1 or Stage 2 fails on a quota or
\* rate-limit error (HTTP 429, or a message containing "quota"), the stage
\* throws the quota error that names the stage and returns no fallback.
C7_QuotaErrorThrown ==
    (StageDone /\ QuotaFailure) => ThrewQuota

C7_Witness ==
    /\ stage = "stage2" /\ StageDone
    /\ Http429Failure
    /\ sres.site = "quota"

\* C8: the only errors Stage 1 and Stage 2 throw are the missing-key error and
\* the quota error; every other failure of the call or of reading its body
\* ends in the fallback of the stage.
C8_OnlyConfigAndQuotaThrown ==
    StageDone =>
        IF KeyAbsent(StageEnv) THEN ThrewConfig
        ELSE IF QuotaFailure THEN ThrewQuota
        ELSE /\ sres.kind = "return"
             /\ (CallFailed \/ errorMsg # JUndefined) => ReturnedFallback

\* C9: with the key of a stage absent after trimming, the stage fails with
\* the configuration error before any call of the generation API, any page
\* fetch and any throttle delay.
C9_MissingKeyFailsFirst ==
    (stage # "none" /\ KeyAbsent(StageEnv)) =>
        /\ ThrewConfig
        /\ log = <<>>
        /\ fpc = "idle"
        /\ \A i \in 1..Len(pages) : pages[i].pc = "idle"

C9_Witness ==
    /\ stage = "stage2" /\ StageDone
    /\ env2 = JStr(<<" ">>)
    /\ Len(pages) > 0
    /\ sres.site = "config"

\* C10: Stage 2 reaches the local text extraction and the hard-coded default
\* only after three prompts (first, validation, fallback) have been issued and
\* each of their results has failed validation.
C10_ThreePromptsFirst ==
    (stage = "stage2" /\ StageDone /\ BodyDecoded /\ sres.site \in {"text", "default"})
        => NumPrompts = 3

\* The options of a spec as a sequence of values; <<>> when it has no array
\* of options.
OptionsOf(isq) ==
    IF Get(isq, KOptions).t = "arr" THEN Get(isq, KOptions).v ELSE <<>>

\* The name of a spec is a string that is not empty.
HasName(isq) == Get(isq, KName).t = "str" /\ Len(Get(isq, KName).v) > 0

\* The validation rule of the specification on a result {config, keys}.
IsValidISQSet(r) ==
    LET config == Get(r, KConfig)
        keys == IF Get(r, KKeys).t = "arr" THEN Get(r, KKeys).v ELSE <<>>
        all == <<config>> \o keys
    IN  /\ HasName(config)
        /\ Len(OptionsOf(config)) >= 2
        /\ Len(keys) >= 3
        /\ \A i \in 1..Len(keys) : HasName(keys[i]) /\ Len(OptionsOf(keys[i])) >= 2
        /\ \A i, j \in 1..Len(all) :
              i # j => normalizeSpecName(Get(all[i], KName).v)
                          # normalizeSpecName(Get(all[j], KName).v)

\* C11: every result Stage 2 returns that was derived from the model answer
\* (the decoded JSON or the text-based extraction) satisfies the validation
\* rule.
C11_ReturnedResultsAreValid ==
    (stage = "stage2" /\ StageDone /\ sres.site \in {"json", "text"})
        => IsValidISQSet(sres.v)

\* The names of the keys of a result, in order.
KeyNames(r) ==
    IF Get(r, KKeys).t = "arr"
    THEN [i \in 1..Len(Get(r, KKeys).v) |-> Get(Get(r, KKeys).v[i], KName)]
    ELSE <<>>

\* The hardcoded default of the specification: config Material Grade with
\* options 304, 316, 304L and the keys Thickness, Size, Finish.
IsMaterialGradeDefault(r) ==
    /\ Get(r, KConfig) = MakeISQ(<<"M", "a", "t", "e", "r", "i", "a", "l", " ", "G", "r", "a", "d", "e">>, <<<<"3", "0", "4">>, <<"3", "1", "6">>, <<"3", "0", "4", "L">>>>)
    /\ KeyNames(r) = <<JStr(<<"T", "h", "i", "c", "k", "n", "e", "s", "s">>), JStr(<<"S", "i", "z", "e">>), JStr(<<"F", "i", "n", "i", "s", "h">>)>>

\* C12: when every page fetch yields the empty string and no model answer is
\* usable, Stage 2 returns the hardcoded default with config Material Grade and
\* keys Thickness, Size, Finish.
C12_MaterialGradeDefault ==
    (/\ stage = "stage2" /\ StageDone
     /\ sres.site \in {"default", "caught"}
     /\ \A i \in 1..Len(urlContents) : urlContents[i] = <<>>)
        => IsMaterialGradeDefault(sres.v)

\* The page fetches of URL i started so far.
PageFetches(i) == {k \in 1..Len(log) : log[k] = PageEvent(i)}

\* C13: a failure of the fetch or of reading one page makes fetchURL resolve
\* to the empty string for that URL; the batch over all URLs completes with
\* one content for each URL, the contents of the other URLs are kept, and
\* each URL is fetched exactly once.
C13_PageFailureIsEmptyString ==
    (stage = "stage2" /\ spc \in {"pages", "call", "done"} /\ ~KeyAbsent(env2)) =>
        /\ \A i \in 1..Len(pages) :
              /\ pages[i].pc = "caught" => pages[i].content = <<>>
              /\ Cardinality(PageFetches(i)) = 1
        /\ spc \in {"call", "done"} =>
              /\ Len(urlContents) = Len(pages)
              /\ \A i \in 1..Len(pages) :
                    /\ Settled(pages[i])
                    /\ urlContents[i] = pages[i].content

C13_Witness ==
    /\ stage = "stage2" /\ StageDone
    /\ Len(pages) = 2
    /\ pages[1].pc = "caught"
    /\ pages[2].pc = "done"
    /\ urlContents = <<<<>>, <<"p">>>>
    /\ sres.kind = "return"

-----------------------------------------------------------------------------
\* Properties of the reconciler, under SpecSelect.

Selected == fn = "selectStage3BuyerISQs" /\ rets # <<>> /\ rets[1].kind = "return"

\* The buyer ISQs returned.
Buyers == rets[1].v.v

\* Every Stage 1 spec of an MCAT, of all three tiers.
AllTiers(mcat) ==
    McatSpecs(mcat) \o TierSpecs(SpecsOf(mcat, KTertiarySpecs), STertiary)

\* Every Stage 1 spec across all PMCATs, MCATs and tiers.
EveryStage1Spec(stage1) ==
    LET sellers == Get(stage1, KSellerSpecs).v
        OfSeller(seller) ==
            ConcatAll([j \in 1..Len(Get(seller, KMcats).v) |-> AllTiers(Get(seller, KMcats).v[j])])
    IN  ConcatAll([i \in 1..Len(sellers) |-> OfSeller(sellers[i])])

\* The Stage 2 specs among config and keys.
ConfigAndKeys(stage2) == MapNormName(<<Get(stage2, KConfig)>> \o Get(stage2, KKeys).v)

\* The Stage 1 specs that are common: some Stage 2 spec among config and keys
\* has their normalized name.
CommonAmong(every, configAndKeys) ==
    SelectSeq(every, LAMBDA s : InStage2(s, configAndKeys))

CommonOfClaim == CommonAmong(EveryStage1Spec(args[1]), ConfigAndKeys(args[2]))

\* What the code works with.
CodeStage1All == Stage1All(args[1])
CodeStage2All == Stage2All(args[2])
CodeCommon == CommonSpecs(CodeStage1All, CodeStage2All)

\* The specs the code selects, in the order of the returned ISQs.
SelectedOf(common, primarySpec) ==
    SelectSeq(<<primarySpec, SecondarySpec(common, primarySpec)>>, Truthy)
SelectedFrom(common) == SelectedOf(common, PrimarySpec(common))
SelectedSpecs == SelectedFrom(CodeCommon)

InSeq(x, seq) == \E i \in 1..Len(seq) : seq[i] = x

\* C14: the result has at most 2 buyer ISQs, and exactly 2 whenever at least
\* 2 Stage 1 specs are common with Stage 2, also when two common specs share
\* one normalized name.
C14_TwoWhenTwoCommon ==
    Selected =>
        /\ Len(Buyers) <= 2
        /\ Len(CommonOfClaim) >= 2 => Len(Buyers) = 2

NoRepeats(seq) == \A i, j \in 1..Len(seq) : i # j => seq[i] # seq[j]

\* C15: the merged option list of every returned buyer ISQ has at most 8
\* values and no value twice, also when a stage's own list has repeated
\* values or more than 8 values.
C15_MergedOptionsBounded ==
    Selected =>
        \A k \in 1..Len(Buyers) :
            /\ Len(OptionsOf(Buyers[k])) <= 8
            /\ NoRepeats(OptionsOf(Buyers[k]))

C15_Witness ==
    /\ Selected
    /\ args[2] = LongStage2
    /\ Len(Buyers) >= 1
    /\ Len(OptionsOf(Buyers[1])) = 8

\* The two option lists the merge of a selected spec starts from.
Stage2List(spec) ==
    OptionsIfAny(FindBy(CodeStage2All, KNormName, Get(spec, KNormName), TRUE))
Stage1List(spec) ==
    OptionsIfAny(FindBy(CodeStage1All, KNormName, Get(spec, KNormName), TRUE))

\* 0 for an option of both lists, 1 for one of the Stage 2 list only, 2 for
\* one of the Stage 1 list only.
Rank(o, s2list, s1list) ==
    IF InSeq(o, s2list) /\ InSeq(o, s1list) THEN 0
    ELSE IF InSeq(o, s2list) THEN 1 ELSE 2

RanksOf(merged, s2list, s1list) ==
    [i \in 1..Len(merged) |-> Rank(merged[i], s2list, s1list)]

Ascending(ranks) == \A i, j \in 1..Len(ranks) : i < j => ranks[i] <= ranks[j]

MergedRanks(buyers, selected) ==
    [k \in 1..Len(buyers) |->
        RanksOf(OptionsOf(buyers[k]), Stage2List(selected[k]), Stage1List(selected[k]))]

AllAscending(ranks) == \A k \in 1..Len(ranks) : Ascending(ranks[k])

\* C16: in the merged option list of a selected spec, every option of both
\* stages comes before every Stage-2-only option, and every Stage-2-only
\* option before every Stage-1-only option.
C16_BothStagesFirst ==
    Selected => AllAscending(MergedRanks(Buyers, SelectedSpecs))

\* The Stage 1 output of the example: Primary Grade 304/316, Secondary
\* Thickness.
ExampleStage1 == MakeStage1(<<MakeMcat(<<GradeSpec>>, <<ThicknessSpec>>, <<>>)>>, FALSE)

\* C17: on the example the result is exactly two ISQs named Grade then
\* Thickness, and the options of Grade are 304, 316, 304L.
C17_Example ==
    (Selected /\ args = <<ExampleStage1, ExampleStage2>>) =>
        /\ Len(Buyers) = 2
        /\ Get(Buyers[1], KName) = JStr(SGrade)
        /\ Get(Buyers[2], KName) = JStr(SThicknessName)
        /\ OptionsOf(Buyers[1]) = StrArray(<<<<"3", "0", "4">>, <<"3", "1", "6">>, <<"3", "0", "4", "L">>>>).v

\* The normalized names of the Primary specs of a list.
PrimaryNames(common) ==
    {Get(common[i], KNormName) :
        i \in {j \in 1..Len(common) : Get(common[j], KTier) = JStr(SPrimary)}}

TierRank(s) ==
    IF Get(s, KTier) = JStr(SPrimary) THEN 0
    ELSE IF Get(s, KTier) = JStr(SSecondary) THEN 1 ELSE 2

TiersOf(specs) == [k \in 1..Len(specs) |-> TierRank(specs[k])]

PriorityHolds(numPrimary, tiers) ==
    /\ numPrimary >= 2 => tiers = <<0, 0>>
    /\ (\E k \in 1..Len(tiers) : tiers[k] = 1) => numPrimary < 2
    /\ Len(tiers) = 2 => tiers[1] <= tiers[2]

\* C18: with at least two common Primary specs of different normalized names
\* both selected specs are Primary; a Secondary spec is selected only with
\* fewer than two; the first returned ISQ never has a lower tier than the
\* second.
C18_PrimaryBeforeSecondary ==
    Selected => PriorityHolds(Cardinality(PrimaryNames(CommonOfClaim)), TiersOf(SelectedSpecs))

CommonAgree(every, codeCommon, common, selected) ==
    /\ \A i \in 1..Len(every) : InSeq(every[i], codeCommon) <=> InSeq(every[i], common)
    /\ \A k \in 1..Len(selected) : InSeq(selected[k], common)

\* C19: a Stage 1 spec of any PMCAT, MCAT and tier is treated as common if
\* and only if some Stage 2 spec among config and keys has its normalized
\* name; every returned buyer ISQ is a common spec.
C19_CommonIffSameNormalizedName ==
    Selected => CommonAgree(EveryStage1Spec(args[1]), CodeCommon, CommonOfClaim, SelectedSpecs)

\* C20: normalizeSpecName is idempotent: applied to its own result it returns
\* that result, for every string, also one where removing a stripped word
\* joins the letters around it into another stripped or rewritten word.
C20_NormalizeIdempotent ==
    (fn = "normalizeSpecName" /\ Len(rets) = 2) => rets[2] = rets[1]

Normalized == fn = "normalizeSpecName" /\ rets # <<>>

\* C21: normalizeSpecName of "Thk", of "Thickness" and of " THK " is one and
\* the same key, "thickness".
C21_ThkSpellingsAgree ==
    (Normalized /\ args[1] \in {JStr(SThkName), JStr(SThicknessName), JStr(SThkSpaced)}) =>
        rets[1] = Return(JStr(SThickness))

C21_Witness ==
    /\ Normalized
    /\ args[1] = JStr(SThkSpaced)
    /\ rets[1] = Return(JStr(SThickness))

\* C22: normalizeSpecName returns the empty string, and does not throw, when
\* its input is empty or is not a string.
C22_NoNameIsEmptyString ==
    (Normalized /\ (args[1].t # "str" \/ args[1] = JStr(<<>>))) =>
        rets[1] = Return(JStr(<<>>))

-----------------------------------------------------------------------------
\* Properties of compareResults, under SpecCompare.

Compared == fn = "compareResults" /\ rets # <<>>

\* The three lists of the result.
CommonList == Get(rets[1].v, KCommonSpecs).v
UniqueToA == Get(rets[1].v, KChatgptUnique).v
UniqueToB == Get(rets[1].v, KGeminiUnique).v

\* The names of all the specs of a run, of every tier.
RunNames(run) ==
    LET every == EveryStage1Spec(run)
    IN  {Get(every[i], KSpecName).v : i \in 1..Len(every)}

Listed(name, list) == \E i \in 1..Len(list) : list[i] = JStr(name)

\* C23: a name whose normalized name is the empty string matches nothing: it
\* is never among the common names.
C23_EmptyKeyNeverMatches ==
    Compared => \A name \in RunNames(args[1]) :
                    Listed(name, CommonList) => normalizeSpecName(name) # <<>>

\* The normalized names of a set of names.
KeysOf(names) == {normalizeSpecName(name) : name \in names}

ComparisonHolds(namesA, namesB, keysB, common, uniqueA, uniqueB) ==
    /\ \A a \in namesA :
          /\ Listed(a, common) # Listed(a, uniqueA)
          /\ Listed(a, common) <=> normalizeSpecName(a) \in keysB
    /\ \A i \in 1..Len(uniqueB) :
          /\ uniqueB[i].v \in namesB
          /\ normalizeSpecName(uniqueB[i].v) \notin KeysOf(namesA)
    /\ NoRepeats(common) /\ NoRepeats(uniqueA) /\ NoRepeats(uniqueB)

\* C25: every name of run A is in exactly one of common and uniqueToA, in
\* common exactly when a name of run B has its normalized name; every name of
\* uniqueToB is a name of run B whose normalized name is that of no name of
\* run A; no list has a name twice.
C25_ComparisonPartitionsNames ==
    Compared => ComparisonHolds(RunNames(args[1]), RunNames(args[2]), KeysOf(RunNames(args[2])),
                                CommonList, UniqueToA, UniqueToB)

\* Run A has a name twice, a Tertiary name and a name that differs from one
\* of run B in case and white space only.
C25_Witness ==
    /\ Compared
    /\ args[1] = MakeStage1(<<MakeMcat(<<MakeSpec(SGradeSpaced, <<>>), MakeSpec(SGradeSpaced, <<>>)>>,
                                       <<>>, <<MakeSpec(SSize, <<>>)>>)>>, FALSE)
    /\ args[2] = MakeStage1(<<MakeMcat(<<>>, <<MakeSpec(SGrade, <<>>)>>,
                                       <<MakeSpec(SPlateName, <<>>)>>)>>, FALSE)
    /\ CommonList = <<JStr(SGradeSpaced)>>
    /\ UniqueToA = <<JStr(SSize)>>
    /\ UniqueToB = <<JStr(SPlateName)>>

-----------------------------------------------------------------------------
\* Properties of the page fetches of Stage 2, under Spec.

\* C27: the page fetches of all URLs are started together; the prompt is
\* built, and the model called, only after every fetch has settled; whatever
\* the order in which the fetches complete, the content written in the prompt
\* at position i is the content of the page of urls[i].
C27_ContentsInUrlOrder ==
    (stage = "stage2" /\ ~KeyAbsent(env2)) =>
        /\ (\E i \in 1..Len(pages) : pages[i].pc # "idle") =>
              /\ \A i \in 1..Len(pages) : pages[i].pc # "idle"
              /\ \A i \in 1..Len(pages) : log[1 + i] = PageEvent(i)
        /\ NumPrompts > 0 =>
              /\ AllSettled(pages)
              /\ Len(UrlsText(urlContents)) = Len(pages)
              /\ \A i \in 1..Len(pages) :
                    UrlsText(urlContents)[i] = [url |-> i, content |-> pages[i].content]

\* The second page has failed and the first has a text.
C27_Witness ==
    /\ stage = "stage2"
    /\ NumPrompts = 1
    /\ Len(pages) = 2
    /\ pages[1].content = <<"p">>
    /\ pages[2].pc = "caught"
    /\ UrlsText(urlContents) = <<[url |-> 1, content |-> <<"p">>], [url |-> 2, content |-> <<>>]>>

-----------------------------------------------------------------------------
\* Properties of App, under SpecApp and SpecAppLive.

\* The stage calls that are pending.
PendingCalls ==
    {<<r, 1>> : r \in {q \in 1..Len(runs) : runs[q].s1 = "pending"}}
      \cup {<<r, 2>> : r \in {q \in 1..Len(runs) : runs[q].s2 = "pending"}}

\* C24: in handleStage0Submit the Stage 2 call is issued only after the
\* Stage 1 call has resolved, the two are never pending together, and when
\* Stage 1 throws the Stage 2 call is never issued in that run.
C24_StagesInSequence ==
    /\ \A r \in 1..Len(runs) :
          /\ runs[r].s2 # "none" => runs[r].s1 = "resolved"
          /\ runs[r].s1 = "rejected" => runs[r].s2 = "none"
    /\ Cardinality(PendingCalls) <= 1

\* A run whose Stage 1 threw, then a run whose Stage 2 call is pending.
C24_Witness ==
    /\ Len(runs) = 2
    /\ runs[1].s1 = "rejected"
    /\ runs[2].s1 = "resolved"
    /\ runs[2].s2 = "pending"

\* The runs in flight.
InFlight == {r \in 1..Len(runs) : runs[r].s1 = "pending" \/ runs[r].s2 = "pending"}

\* C26: at most one run is in flight at any time, loading is true exactly
\* while one is, no run starts while loading is true, and loading always
\* becomes false again.
C26_OneRunInFlight ==
    /\ [](Cardinality(InFlight) <= 1 /\ (loading <=> InFlight # {}))
    /\ [][loading => Len(runs') = Len(runs)]_vars
    /\ (loading ~> ~loading)

\* A second run is in flight, after a first that succeeded and a reset.
C26_Witness ==
    /\ Len(runs) = 2
    /\ runs[1].s2 = "resolved"
    /\ InFlight = {2}
    /\ loading

\* The last run ended with a throw of Stage 1 or of Stage 2.
LastRunThrew ==
    /\ runs # <<>>
    /\ runs[Len(runs)].s1 = "rejected" \/ runs[Len(runs)].s2 = "rejected"

\* C28: stage = "stages" implies that stage1Data and isqs are not null and
\* error is empty; a run whose Stage 1 or Stage 2 threw leaves stage =
\* "stage0", the error message set and isqs null.
C28_ResultsViewHasData ==
    /\ uiStage = "stages" => (stage1Data # JNull /\ isqs # JNull /\ error = <<>>)
    /\ LastRunThrew => (uiStage = "stage0" /\ error # <<>> /\ isqs = JNull)

\* The results of a run are shown after an earlier run whose Stage 2 threw.
C28_Witness ==
    /\ Len(runs) = 2
    /\ runs[1].s2 = "rejected"
    /\ runs[2].s2 = "resolved"
    /\ uiStage = "stages"
    /\ activeTab = "stage3"

-----------------------------------------------------------------------------
\* Properties of the Stage 3 tab and of the download, under SpecTab.

TabShown == fn = "Stage3Results" /\ rets # <<>>

\* The buyer ISQs and the common specs the tab shows.
TabBuyers == Get(rets[1].v, KTabBuyerISQs).v
TabCommon == Get(rets[1].v, KTabCommonSpecs).v

\* The Stage 1 specs of a tier whose normalized name, as the tab normalizes,
\* is that of the config or of a key of Stage 2.
CommonOfTier(every, tier, normalized) ==
    SelectSeq(every, LAMBDA s : /\ Get(s, KTier) = JStr(tier)
                                /\ tabNormalizeSpecName(Get(s, KSpecName).v) \in normalized)

\* The options of a Stage 1 spec with those that the Stage 2 specs of its
\* name list first, each part in the order of Stage 1, cut to 8.
ExpectedOptions(s, listed) ==
    LET first == SelectSeq(Get(s, KOptions).v, LAMBDA o : o \in listed)
        rest == SelectSeq(Get(s, KOptions).v, LAMBDA o : o \notin listed)
    IN  SubSeq(first \o rest, 1, IF Len(first \o rest) > 8 THEN 8 ELSE Len(first \o rest))

\* The shown ISQ is the Stage 1 spec s with its options reordered.
ShowsSpec(isq, s, stage2) ==
    /\ Get(isq, KSpecName) = Get(s, KSpecName)
    /\ Get(isq, KCategory) = Get(s, KTier)
    /\ Get(isq, KOptions).v = ExpectedOptions(s, Stage2OptionsOf(stage2, Get(s, KSpecName)))

TabHolds(buyers, primary, secondary, stage2) ==
    /\ Len(buyers) <= 2
    /\ \A k \in 1..Len(buyers) :
          /\ \E i \in 1..Len(primary \o secondary) :
                ShowsSpec(buyers[k], (primary \o secondary)[i], stage2)
          /\ Get(buyers[k], KCategory) = JStr(SSecondary) => Len(primary) < k

\* C29: the tab shows at most 2 buyer ISQs, each a Stage 1 Primary or
\* Secondary spec whose normalized name is that of the config or of a key of
\* Stage 2; a Secondary spec is shown only after every common Primary spec;
\* each option list is the first 8 of the Stage 1 options with those that the
\* same-named Stage 2 spec lists first, the order otherwise kept.
C29_TabBuyerISQs ==
    TabShown =>
        TabHolds(TabBuyers,
                 CommonOfTier(EveryStage1Spec(args[1]), SPrimary, Stage2Normalized(args[2])),
                 CommonOfTier(EveryStage1Spec(args[1]), SSecondary, Stage2Normalized(args[2])),
                 args[2])

\* The Primary spec of the second MCAT is shown before the Secondary spec of
\* the first, with the option that Stage 2 lists moved to the front.
C29_Witness ==
    /\ TabShown
    /\ args[1] = MakeStage1(<<MakeMcat(<<>>, <<ShapeSpec>>, <<>>),
                              MakeMcat(<<FinishSpec>>, <<>>, <<SizeSpec>>)>>, FALSE)
    /\ args[2] = TypeStage2
    /\ Len(TabBuyers) = 2
    /\ Get(TabBuyers[1], KSpecName) = JStr(SFinish)
    /\ Get(TabBuyers[2], KSpecName) = JStr(SShapeName)
    /\ Get(TabBuyers[1], KOptions) = StrArray(<<<<"2", "B">>, <<"B", "A">>, <<"B", "A">>>>)

\* The spec names of a list of items, in order.
ItemNames(items) == [i \in 1..Len(items) |-> Get(items[i], KSpecName)]

\* C30: for the same stage1Data and isqs the download contains the same
\* common specifications and the same buyer ISQs, by spec name, as the tab
\* shows.
C30_DownloadMatchesTab ==
    (fn = "Stage3Results" /\ Len(rets) = 2) =>
        /\ ItemNames(Get(rets[2].v, KCommonSpecs).v) = ItemNames(TabCommon)
        /\ ItemNames(Get(rets[2].v, KBuyerIsqs).v) = ItemNames(TabBuyers)

====
